---------------------------- MODULE Spec2Model ----------------------------
(***************************************************************************)
(* Connector lifecycle manager of zunkiree-search: the OAuth state store,  *)
(* the authorize / callback handshake, the connector rows, the user        *)
(* actions on them (disconnect, manual creation) and the background        *)
(* health sweeper.  Every handler is cut at its awaits: one action per     *)
(* stretch of code that runs without suspension on the asyncio loop.       *)
(***************************************************************************)
EXTENDS Integers, Sequences, FiniteSets, TLC

VARIABLES
    now,        \* time.time() / datetime.utcnow(), in seconds
    store,      \* OAuthStateStore._store : token -> _StateEntry
    issued,     \* history: the entry given to the n-th create(); token n is its key;
                \* with it, the redirect_uri of the authorization URL built for it
    consumed,   \* history: per token, the consume() calls made on it, in order
    db,         \* connectors table: connector id -> row (NoRow once deleted)
    origin,     \* history: per connector id, the state token it was created under (0: manual)
    cb,         \* in-flight oauth_callback requests
    sw,         \* the health_check_loop task (logged: cycles ended in its except branch)
    dc,         \* in-flight disconnect_connector requests
    sy,         \* in-flight sync_connector requests
    jobs,       \* ingestion_jobs table: job id -> row
    az,         \* the latest oauth_authorize request and its response
    fn,         \* a function called on its own: its arguments, and its result once it
                \* returned; or the latest request answered by get, list, create or
                \* delete, with its response
    env         \* the deployment: os.environ of the process, and the base URL under
                \* which requests reach the API (request.base_url)

vars == <<now, store, issued, consumed, db, origin, cb, sw, dc, sy, jobs, az, fn, env>>

-----------------------------------------------------------------------------
(* Bounds of the model *)

MaxTokens == 1        \* authorize calls that reach state_store.create
MaxCallbacks == 2     \* oauth_callback requests delivered
MaxTime == 601        \* the clock stops here
MaxCycles == 2        \* sweep cycles started
MaxDisconnects == 2   \* disconnect requests delivered
MaxManual == 1        \* create_connector requests
SweptRows == 1        \* connectors in the table when the sweeper alone is studied
SweptCycles == 1      \* sweep cycles started then
SweptDisconnects == 1 \* disconnect requests delivered then
CycleRows == 2        \* connectors in the table when one cycle over several is studied
CycleCycles == 1      \* sweep cycles started then
CycleDeletes == 1     \* connectors deleted then
TaskRows == 1         \* connectors in the table when the sweeper's life is studied
TaskCycles == 2       \* sweep cycles started then
TaskDeletes == 1      \* connectors deleted then
MaxSyncs == 1         \* sync_connector requests delivered
SyncRows == 1         \* connectors in the table when syncs are studied
MaxPages == 2         \* pages the content listing returns
MaxSecretLen == 28    \* characters of an API key
MaxListings == 2      \* get_all_providers calls
MaxCreates == 3       \* state_store.create calls when the store alone is studied
OwnerRequests == 1    \* disconnect, sync and successful delete requests when ownership is studied
MaxResponses == 3     \* responses in the chain the search endpoint serves
MaxItems == 2         \* results in one response

(* Program constants *)

TTL == 600                      \* OAuthStateStore._TTL
HEALTH_CHECK_INTERVAL == 300    \* health_check.HEALTH_CHECK_INTERVAL

-----------------------------------------------------------------------------
(* Python values *)

NoneVal == "None"       \* Python None in a string-valued place
NoTime == -1            \* None in a timestamp column
NoCall == [pc |-> "none"]     \* no function is called on its own
NoEntry == [customer_id |-> NoneVal, provider_id |-> NoneVal, created_at |-> NoTime]
NoParam == -1           \* query parameter `state` absent
Forged == 0             \* a state value that create() never returned

Customers == {"cust1", "cust2"}

(* A dict with string keys is the sequence of its <<key, value>> items in
   insertion order; json.dumps writes the items in that order and json.loads
   reads them back in it, so the credentials column holds the same sequence. *)
DictHas(d, k) == \E i \in DOMAIN d : d[i][1] = k

DictGet(d, k, default) ==
    IF DictHas(d, k) THEN d[CHOOSE i \in DOMAIN d : d[i][1] = k][2] ELSE default

DictSet(d, k, v) ==
    IF DictHas(d, k)
    THEN [i \in DOMAIN d |-> IF d[i][1] = k THEN <<k, v>> ELSE d[i]]
    ELSE Append(d, <<k, v>>)

EmptyDict == << >>

-----------------------------------------------------------------------------
(* Provider catalog: four of the registry's descriptors, one for each
   combination of capabilities the handlers distinguish. *)

PROVIDERS == <<
    [provider_id |-> "notion", display_name |-> "Notion",
     auth_url |-> "https://api.notion.com/v1/oauth/authorize",
     token_url |-> "https://api.notion.com/v1/oauth/token",
     userinfo_url |-> "https://api.notion.com/v1/users/me", supports_sync |-> TRUE],
    [provider_id |-> "trello", display_name |-> "Trello",
     auth_url |-> "https://trello.com/1/authorize",
     token_url |-> "https://trello.com/1/OAuthGetAccessToken",
     userinfo_url |-> "", supports_sync |-> FALSE],
    [provider_id |-> "freshdesk", display_name |-> "Freshdesk",
     auth_url |-> "", token_url |-> "", userinfo_url |-> "", supports_sync |-> FALSE],
    [provider_id |-> "custom", display_name |-> "Custom",
     auth_url |-> "", token_url |-> "", userinfo_url |-> "", supports_sync |-> FALSE]
>>

NoProvider == [provider_id |-> NoneVal, display_name |-> NoneVal, auth_url |-> "",
               token_url |-> "", userinfo_url |-> "", supports_sync |-> FALSE]

ProviderIds == {PROVIDERS[i].provider_id : i \in DOMAIN PROVIDERS}

\* a lookup that falls back on the first descriptor
get_provider_or_first(provider_id) ==
    IF provider_id \in ProviderIds
    THEN PROVIDERS[CHOOSE i \in DOMAIN PROVIDERS : PROVIDERS[i].provider_id = provider_id]
    ELSE PROVIDERS[1]

get_provider(provider_id) ==
    IF provider_id \in ProviderIds
    THEN PROVIDERS[CHOOSE i \in DOMAIN PROVIDERS : PROVIDERS[i].provider_id = provider_id]
    ELSE NoProvider

\* a catalog whose every descriptor counts as connectable
has_any_descriptor(p) == TRUE

has_oauth_support(p) == p.auth_url # "" /\ p.token_url # ""

\* list(_PROVIDERS)
get_all_providers == [i \in DOMAIN PROVIDERS |-> PROVIDERS[i]]

\* the registry's two lookups called by themselves: fn holds the latest
\* get_provider call and the lists get_all_providers returned so far
GetProvider(provider_id) ==
    /\ fn.pc = "serve"
    /\ fn' = [fn EXCEPT !.got = [id |-> provider_id, result |-> get_provider(provider_id)]]
    /\ UNCHANGED <<now, store, issued, consumed, db, origin, cb, sw, dc, sy, jobs, az, env>>

GetAllProviders ==
    /\ fn.pc = "serve"
    /\ Len(fn.listed) < MaxListings
    /\ fn' = [fn EXCEPT !.listed = Append(@, get_all_providers)]
    /\ UNCHANGED <<now, store, issued, consumed, db, origin, cb, sw, dc, sy, jobs, az, env>>

-----------------------------------------------------------------------------
(* State store *)

\* a comparison that already rejects a token aged exactly TTL
ExpiredAtTTL(entry, t) == t - entry.created_at >= TTL

Expired(entry, t) == t - entry.created_at > TTL

\* dict minus one key
Without(s, token) == [k \in DOMAIN s \ {token} |-> s[k]]

\* a purge that removes nothing
PurgeNothing(s, t) == s

\* _purge_expired
PurgeExpired(s, t) == [k \in {x \in DOMAIN s : ~Expired(s[x], t)} |-> s[k]]

\* create: returns <<store', token>>; token_urlsafe(32) never repeats a token
StoreCreate(s, customer_id, provider_id, t, token) ==
    [k \in DOMAIN PurgeExpired(s, t) \cup {token} |->
        IF k = token
        THEN [customer_id |-> customer_id, provider_id |-> provider_id, created_at |-> t]
        ELSE s[k]]

\* a consume that forgets the TTL
ConsumeResultAnyAge(s, token, t) == IF token \in DOMAIN s THEN s[token] ELSE NoEntry

\* consume: the entry returned (NoEntry for None)
ConsumeResult(s, token, t) ==
    IF token \notin DOMAIN s THEN NoEntry
    ELSE IF Expired(s[token], t) THEN NoEntry
    ELSE s[token]

\* a consume that reads the entry with get() and leaves it in the store
ConsumeStoreKeeps(s, token) == s

\* consume: the store left behind (pop, whatever is returned)
ConsumeStore(s, token) == Without(s, token)

-----------------------------------------------------------------------------
(* Connector rows *)

NoRow == [customer_id |-> NoneVal]

\* Connector(...) as oauth_callback builds it; the other columns take their defaults
OAuthRow(customer_id, provider, credentials, account_name, external_id) ==
    [customer_id |-> customer_id,
     app_name |-> provider.provider_id,
     display_name |-> IF account_name # "" THEN account_name ELSE provider.display_name,
     credentials |-> credentials,
     is_active |-> TRUE,
     auth_method |-> "oauth",
     connection_status |-> "connected",
     status_message |-> NoneVal,
     external_account_id |-> IF external_id # "" THEN external_id ELSE NoneVal,
     external_account_name |-> IF account_name # "" THEN account_name ELSE NoneVal,
     token_expires_at |-> NoTime,
     last_health_check_at |-> NoTime,
     last_synced_at |-> NoTime]

-----------------------------------------------------------------------------
(* What the providers may answer *)

\* in place of a body: the call raised (non-2xx status, timeout, network error)
Failed == << <<"raised", "error">> >>

\* extract_account_name, on flat userinfo bodies
extract_account_name(userinfo) ==
    IF DictGet(userinfo, "email", "") # "" THEN DictGet(userinfo, "email", "")
    ELSE IF DictGet(userinfo, "login", "") # "" THEN DictGet(userinfo, "login", "")
    ELSE IF DictGet(userinfo, "username", "") # "" THEN DictGet(userinfo, "username", "")
    ELSE DictGet(userinfo, "name", "")

\* the credentials dict oauth_callback stores
CallbackCredentials(token_data) ==
    LET access_token == DictGet(token_data, "access_token", "")
        refresh_token == DictGet(token_data, "refresh_token", "")
        c1 == << <<"access_token", access_token>> >>
        c2 == IF refresh_token # "" THEN Append(c1, <<"refresh_token", refresh_token>>) ELSE c1
    IN  IF DictHas(token_data, "token_type")
        THEN Append(c2, <<"token_type", DictGet(token_data, "token_type", "")>>)
        ELSE c2

-----------------------------------------------------------------------------
(* The state store's two methods called by themselves *)

StateStoreCreate(customer_id, provider_id) ==
    LET token == Len(issued) + 1
    IN  /\ Len(issued) < MaxCreates
        /\ store' = StoreCreate(store, customer_id, provider_id, now, token)
        /\ issued' = Append(issued, [customer_id |-> customer_id,
                                      provider_id |-> provider_id,
                                      created_at |-> now])
        /\ consumed' = Append(consumed, << >>)
        /\ UNCHANGED <<now, db, origin, cb, sw, dc, sy, jobs, az, fn, env>>

\* each token is brought back once at most
StateStoreConsume(token) ==
    /\ token \in DOMAIN consumed
    /\ consumed[token] = << >>
    /\ store' = ConsumeStore(store, token)
    /\ consumed' = [consumed EXCEPT ![token] =
                        Append(@, [at |-> now, ret |-> ConsumeResult(store, token, now)])]
    /\ UNCHANGED <<now, issued, db, origin, cb, sw, dc, sy, jobs, az, fn, env>>

-----------------------------------------------------------------------------
(* URLs.  A URL is the sequence of its pieces, a piece being "/" or a text that
   does not end with "/"; two URLs are the same text when they are the same
   sequence. *)

RECURSIVE RStripSlash(_)
RStripSlash(url) ==
    IF url # << >> /\ url[Len(url)] = "/" THEN RStripSlash(SubSeq(url, 1, Len(url) - 1))
    ELSE url

CALLBACK_PATH == <<"/", "api/v1/client/connectors/oauth/callback">>

\* str(request.base_url).rstrip("/") + "/api/v1/client/connectors/oauth/callback"
AuthorizeCallbackUrl(base_url) == RStripSlash(base_url) \o CALLBACK_PATH

\* api_base = os.getenv("API_BASE_URL", "http://localhost:8000")
\* f"{api_base}/api/v1/client/connectors/oauth/callback"
ExchangeCallbackUrl(environ) ==
    DictGet(environ, "API_BASE_URL", <<"http://localhost:8000">>) \o CALLBACK_PATH

\* the API run on the developer's machine with API_BASE_URL not set
LocalDeployment == [environ |-> EmptyDict, base_url |-> <<"http://localhost:8000", "/">>]

-----------------------------------------------------------------------------
(* oauth_authorize *)

\* no oauth_authorize request yet
NoAuthorize == [customer |-> NoneVal, provider_id |-> NoneVal, status |-> 0, state |-> NoParam]

Authorized(customer, provider_id, status, state) ==
    [customer |-> customer, provider_id |-> provider_id, status |-> status, state |-> state]

OAuthAuthorize(customer, provider_id) ==
    LET provider == get_provider(provider_id)
        token == Len(issued) + 1
    IN  /\ Len(issued) < MaxTokens
        /\ IF provider = NoProvider
           THEN /\ az' = Authorized(customer, provider_id, 404, NoParam)
                /\ UNCHANGED <<store, issued, consumed>>
           ELSE IF ~has_oauth_support(provider)
           THEN /\ az' = Authorized(customer, provider_id, 400, NoParam)
                /\ UNCHANGED <<store, issued, consumed>>
           ELSE /\ az' = Authorized(customer, provider_id, 200, token)
                /\ store' = StoreCreate(store, customer, provider.provider_id, now, token)
                /\ issued' = Append(issued, [customer_id |-> customer,
                                              provider_id |-> provider_id,
                                              created_at |-> now,
                                              redirect_uri |->
                                                  AuthorizeCallbackUrl(env.base_url)])
                /\ consumed' = Append(consumed, << >>)
        /\ UNCHANGED <<now, db, origin, cb, sw, dc, sy, jobs, fn, env>>

-----------------------------------------------------------------------------
(* oauth_callback *)

IdleCallback ==
    [pc |-> "idle", error |-> "", code |-> "", state |-> NoParam, entry |-> NoEntry,
     token_data |-> EmptyDict, exchanged |-> FALSE, created |-> 0,
     redirect |-> <<NoneVal, NoneVal>>,
     calls |-> << >>,      \* the provider calls awaited so far and how each ended
     callback_url |-> << >>]   \* the redirect_uri given to exchange_code

Redirect(r, kind, value) ==
    [cb EXCEPT ![r].pc = "done", ![r].redirect = <<kind, value>>]

Called(req, call, outcome) == [req EXCEPT !.calls = Append(@, <<call, outcome>>)]

\* a creation that files every connector under one customer
CallbackCreateForFirstCustomer(r, req, account_name, external_id) ==
    LET provider == get_provider(req.entry.provider_id)
        row == OAuthRow("cust1", provider,
                        CallbackCredentials(req.token_data), account_name, external_id)
    IN  /\ db' = Append(db, row)
        /\ origin' = Append(origin, req.state)
        /\ cb' = [cb EXCEPT ![r] = [req EXCEPT !.pc = "done", !.created = Len(db) + 1,
                                        !.token_data = EmptyDict,
                                        !.redirect = <<"oauth_success", provider.provider_id>>]]

\* db.add(connector); db.commit(); redirect oauth_success
CallbackCreate(r, req, account_name, external_id) ==
    LET provider == get_provider(req.entry.provider_id)
        row == OAuthRow(req.entry.customer_id, provider,
                        CallbackCredentials(req.token_data), account_name, external_id)
    IN  /\ db' = Append(db, row)
        /\ origin' = Append(origin, req.state)
        /\ cb' = [cb EXCEPT ![r] = [req EXCEPT !.pc = "done", !.created = Len(db) + 1,
                                        !.token_data = EmptyDict,
                                        !.redirect = <<"oauth_success", provider.provider_id>>]]

\* a callback that looks the state up and leaves its removal for later
CallbackStartPeek(r, error, code, state) ==
    LET entry == ConsumeResult(store, state, now)
        req == [cb[r] EXCEPT !.error = error, !.code = code, !.state = state]
    IN  /\ cb[r].pc = "idle"
        /\ IF r = 1 THEN TRUE ELSE cb[r - 1].pc # "idle"   \* numbered as they arrive
        /\ IF error # ""
           THEN /\ cb' = [cb EXCEPT ![r] = [req EXCEPT !.pc = "done",
                                                !.redirect = <<"oauth_error", error>>]]
                /\ UNCHANGED <<store, consumed>>
           ELSE IF state = NoParam \/ code = ""
           THEN /\ cb' = [cb EXCEPT ![r] = [req EXCEPT !.pc = "done",
                                                !.redirect = <<"oauth_error", "missing_params">>]]
                /\ UNCHANGED <<store, consumed>>
           ELSE /\ store' = store
                /\ consumed' = IF state \in DOMAIN consumed
                               THEN [consumed EXCEPT ![state] =
                                        Append(@, [at |-> now, ret |-> entry])]
                               ELSE consumed
                /\ cb' = [cb EXCEPT ![r] =
                            IF entry = NoEntry
                            THEN [req EXCEPT !.pc = "done",
                                             !.redirect = <<"oauth_error", "invalid_state">>]
                            ELSE IF get_provider(entry.provider_id) = NoProvider
                            THEN [req EXCEPT !.pc = "done", !.entry = entry,
                                             !.redirect = <<"oauth_error", "unknown_provider">>]
                            ELSE [req EXCEPT !.pc = "exchange", !.entry = entry,
                                             !.exchanged = TRUE]]
        /\ UNCHANGED <<now, issued, db, origin, sw, dc, sy, jobs, az, fn, env>>

\* from the request's arrival to the await of exchange_code
\* a callback that takes the state entry out of the store before it looks at
\* the error and code parameters
CallbackStartConsumesFirst(r, error, code, state) ==
    LET entry == ConsumeResult(store, state, now)
        req == [cb[r] EXCEPT !.error = error, !.code = code, !.state = state]
    IN  /\ cb[r].pc = "idle"
        /\ IF r = 1 THEN TRUE ELSE cb[r - 1].pc # "idle"
        /\ store' = IF state = NoParam THEN store ELSE ConsumeStore(store, state)
        /\ consumed' = IF state \in DOMAIN consumed
                       THEN [consumed EXCEPT ![state] = Append(@, [at |-> now, ret |-> entry])]
                       ELSE consumed
        /\ cb' = [cb EXCEPT ![r] =
                    IF error # ""
                    THEN [req EXCEPT !.pc = "done", !.redirect = <<"oauth_error", error>>]
                    ELSE IF state = NoParam \/ code = ""
                    THEN [req EXCEPT !.pc = "done",
                                     !.redirect = <<"oauth_error", "missing_params">>]
                    ELSE IF entry = NoEntry
                    THEN [req EXCEPT !.pc = "done",
                                     !.redirect = <<"oauth_error", "invalid_state">>]
                    ELSE IF get_provider(entry.provider_id) = NoProvider
                    THEN [req EXCEPT !.pc = "done", !.entry = entry,
                                     !.redirect = <<"oauth_error", "unknown_provider">>]
                    ELSE [req EXCEPT !.pc = "exchange", !.entry = entry,
                                     !.exchanged = TRUE,
                                     !.callback_url = ExchangeCallbackUrl(env.environ)]]
        /\ UNCHANGED <<now, issued, db, origin, sw, dc, sy, jobs, az, fn, env>>

CallbackStart(r, error, code, state) ==
    LET entry == ConsumeResult(store, state, now)
        req == [cb[r] EXCEPT !.error = error, !.code = code, !.state = state]
    IN  /\ cb[r].pc = "idle"
        /\ IF r = 1 THEN TRUE ELSE cb[r - 1].pc # "idle"   \* numbered as they arrive
        /\ IF error # ""
           THEN /\ cb' = [cb EXCEPT ![r] = [req EXCEPT !.pc = "done",
                                                !.redirect = <<"oauth_error", error>>]]
                /\ UNCHANGED <<store, consumed>>
           ELSE IF state = NoParam \/ code = ""
           THEN /\ cb' = [cb EXCEPT ![r] = [req EXCEPT !.pc = "done",
                                                !.redirect = <<"oauth_error", "missing_params">>]]
                /\ UNCHANGED <<store, consumed>>
           ELSE /\ store' = ConsumeStore(store, state)
                /\ consumed' = IF state \in DOMAIN consumed
                               THEN [consumed EXCEPT ![state] =
                                        Append(@, [at |-> now, ret |-> entry])]
                               ELSE consumed
                /\ cb' = [cb EXCEPT ![r] =
                            IF entry = NoEntry
                            THEN [req EXCEPT !.pc = "done",
                                             !.redirect = <<"oauth_error", "invalid_state">>]
                            ELSE IF get_provider(entry.provider_id) = NoProvider
                            THEN [req EXCEPT !.pc = "done", !.entry = entry,
                                             !.redirect = <<"oauth_error", "unknown_provider">>]
                            ELSE [req EXCEPT !.pc = "exchange", !.entry = entry,
                                             !.exchanged = TRUE,
                                             !.callback_url =
                                                 ExchangeCallbackUrl(env.environ)]]
        /\ UNCHANGED <<now, issued, db, origin, sw, dc, sy, jobs, az, fn, env>>

\* a callback that puts the state entry back when the exchange is rejected
CallbackExchangeRestores(r, answer) ==
    LET req == cb[r]
        provider == get_provider(req.entry.provider_id)
        access_token == DictGet(answer, "access_token", "")
    IN  /\ req.pc = "exchange"
        /\ IF answer = Failed
           THEN /\ cb' = [Redirect(r, "oauth_error", provider.provider_id) EXCEPT
                            ![r] = Called(@, "exchange_code", "raised")]
                /\ store' = [k \in DOMAIN store \cup {req.state} |->
                                IF k = req.state THEN req.entry ELSE store[k]]
                /\ UNCHANGED <<db, origin>>
           ELSE IF provider.userinfo_url # "" /\ access_token # ""
           THEN /\ cb' = [cb EXCEPT ![r] =
                            [Called(req, "exchange_code", "returned") EXCEPT
                                !.pc = "userinfo", !.token_data = answer]]
                /\ UNCHANGED <<db, origin, store>>
           ELSE /\ CallbackCreate(r, [Called(req, "exchange_code", "returned") EXCEPT
                                         !.token_data = answer], "", "")
                /\ UNCHANGED store
        /\ UNCHANGED <<now, issued, consumed, sw, dc, sy, jobs, az, fn, env>>

\* the answer of exchange_code, up to the await of fetch_user_info or to the end
CallbackExchange(r, answer) ==
    LET req == cb[r]
        provider == get_provider(req.entry.provider_id)
        access_token == DictGet(answer, "access_token", "")
    IN  /\ req.pc = "exchange"
        /\ IF answer = Failed
           THEN /\ cb' = [Redirect(r, "oauth_error", provider.provider_id) EXCEPT
                            ![r] = Called(@, "exchange_code", "raised")]
                /\ UNCHANGED <<db, origin>>
           ELSE IF provider.userinfo_url # "" /\ access_token # ""
           THEN /\ cb' = [cb EXCEPT ![r] =
                            [Called(req, "exchange_code", "returned") EXCEPT
                                !.pc = "userinfo", !.token_data = answer]]
                /\ UNCHANGED <<db, origin>>
           ELSE CallbackCreate(r, [Called(req, "exchange_code", "returned") EXCEPT
                                      !.token_data = answer], "", "")
        /\ UNCHANGED <<now, store, issued, consumed, sw, dc, sy, jobs, az, fn, env>>

\* a callback that lets a failure of fetch_user_info reach the outer except
CallbackUserinfoStrict(r, answer) ==
    LET req == cb[r]
    IN  /\ req.pc = "userinfo"
        /\ IF answer = Failed
           THEN /\ cb' = [cb EXCEPT ![r] =
                            [Called(req, "fetch_user_info", "raised") EXCEPT
                                !.pc = "done",
                                !.redirect = <<"oauth_error", req.entry.provider_id>>]]
                /\ UNCHANGED <<db, origin>>
           ELSE CallbackCreate(r, Called(req, "fetch_user_info", "returned"),
                               extract_account_name(answer),
                               DictGet(answer, "id", DictGet(answer, "sub", "")))
        /\ UNCHANGED <<now, store, issued, consumed, sw, dc, sy, jobs, az, fn, env>>

\* the answer of fetch_user_info, to the end of the handler
CallbackUserinfo(r, answer) ==
    LET req == cb[r]
    IN  /\ req.pc = "userinfo"
        /\ IF answer = Failed
           THEN CallbackCreate(r, Called(req, "fetch_user_info", "raised"), "", "")
           ELSE CallbackCreate(r, Called(req, "fetch_user_info", "returned"),
                               extract_account_name(answer),
                               DictGet(answer, "id", DictGet(answer, "sub", "")))
        /\ UNCHANGED <<now, store, issued, consumed, sw, dc, sy, jobs, az, fn, env>>

-----------------------------------------------------------------------------
(* Responses of the connector handlers.  created_at and updated_at, which the
   rows of the model do not carry, are left out. *)

SYNCABLE_APPS == {"notion"}

connector_to_response(id, c) ==
    [id |-> id, app_name |-> c.app_name, display_name |-> c.display_name,
     auth_method |-> c.auth_method, connection_status |-> c.connection_status,
     status_message |-> c.status_message,
     external_account_name |-> c.external_account_name, is_active |-> c.is_active,
     is_syncable |-> c.app_name \in SYNCABLE_APPS,
     last_synced_at |-> c.last_synced_at,
     last_health_check_at |-> c.last_health_check_at]

\* ConnectionInfo(...) of list_apps
ConnectionInfo(id, c) ==
    [id |-> id, display_name |-> c.display_name,
     external_account_name |-> c.external_account_name,
     connection_status |-> c.connection_status, status_message |-> c.status_message,
     is_syncable |-> c.app_name \in SYNCABLE_APPS, last_synced_at |-> c.last_synced_at]

\* ids in descending order, as a sequence: order_by(created_at.desc())
RECURSIVE Descending(_)
Descending(ids) ==
    IF ids = {} THEN << >>
    ELSE LET m == CHOOSE x \in ids : \A y \in ids : x >= y
         IN  <<m>> \o Descending(ids \ {m})

\* a select that forgets whose connectors it is asked for
OwnedByAnyone(table, customer) == Descending({id \in DOMAIN table : table[id] # NoRow})

\* select(Connector).where(customer_id == customer.id).order_by(created_at.desc())
OwnedBy(table, customer) ==
    Descending({id \in DOMAIN table : table[id] # NoRow /\ table[id].customer_id = customer})

\* the request a handler answered, and its answer
Answered(handler, customer, id, status, body) ==
    [pc |-> "answered", handler |-> handler, customer |-> customer, id |-> id,
     status |-> status, body |-> body]

\* what get_connector answers on this table
GetConnectorResponse(table, customer, id) ==
    IF id \in DOMAIN table /\ table[id] # NoRow /\ table[id].customer_id = customer
    THEN Answered("get_connector", customer, id, 200, <<connector_to_response(id, table[id])>>)
    ELSE Answered("get_connector", customer, id, 404, << >>)

\* what list_connectors answers on this table
ListConnectorsResponse(table, customer) ==
    LET ids == OwnedBy(table, customer)
    IN  Answered("list_connectors", customer, 0, 200,
                 [k \in DOMAIN ids |-> connector_to_response(ids[k], table[ids[k]])])

\* what list_apps answers on this table: per provider, the caller's connections
ListAppsResponse(table, customer) ==
    LET ids == OwnedBy(table, customer)
        of(p) == SelectSeq(ids, LAMBDA id : table[id].app_name = p.provider_id)
    IN  Answered("list_apps", customer, 0, 200,
                 [i \in DOMAIN PROVIDERS |->
                    [provider_id |-> PROVIDERS[i].provider_id,
                     display_name |-> PROVIDERS[i].display_name,
                     is_connectable |-> IF has_oauth_support(PROVIDERS[i]) THEN TRUE
                                        ELSE PROVIDERS[i].provider_id = "custom",
                     connections |-> [k \in DOMAIN of(PROVIDERS[i]) |->
                                        ConnectionInfo(of(PROVIDERS[i])[k],
                                                       table[of(PROVIDERS[i])[k]])]]])

GetConnector(customer, id) ==
    /\ id \in DOMAIN db
    /\ fn' = GetConnectorResponse(db, customer, id)
    /\ UNCHANGED <<now, store, issued, consumed, db, origin, cb, sw, dc, sy, jobs, az, env>>

ListConnectors(customer) ==
    /\ fn' = ListConnectorsResponse(db, customer)
    /\ UNCHANGED <<now, store, issued, consumed, db, origin, cb, sw, dc, sy, jobs, az, env>>

ListApps(customer) ==
    /\ fn' = ListAppsResponse(db, customer)
    /\ UNCHANGED <<now, store, issued, consumed, db, origin, cb, sw, dc, sy, jobs, az, env>>

-----------------------------------------------------------------------------
(* create_connector: manual credential entry *)

\* str.lower() and str.title() on the app names entered
Lower(name) == IF name = "Custom" THEN "custom" ELSE name

Title(name) == IF name = "custom" THEN "Custom" ELSE IF name = "notion" THEN "Notion" ELSE name

ManualRow(customer_id, app_name, display_name, credentials) ==
    [customer_id |-> customer_id,
     app_name |-> Lower(app_name),
     display_name |-> IF display_name # NoneVal /\ display_name # "" THEN display_name
                      ELSE IF DictGet(credentials, "username", "") # ""
                      THEN DictGet(credentials, "username", "")
                      ELSE Title(Lower(app_name)),
     credentials |-> credentials,
     is_active |-> TRUE,
     auth_method |-> "credential",
     connection_status |-> "connected",
     status_message |-> NoneVal,
     external_account_id |-> NoneVal,
     external_account_name |-> NoneVal,
     token_expires_at |-> NoTime,
     last_health_check_at |-> NoTime,
     last_synced_at |-> NoTime]

CreateConnector(customer, app_name, display_name, credentials) ==
    /\ Cardinality({i \in DOMAIN origin : origin[i] = 0}) < MaxManual
    /\ db' = Append(db, ManualRow(customer, app_name, display_name, credentials))
    /\ origin' = Append(origin, 0)
    /\ fn' = Answered("create_connector", customer, Len(db) + 1, 201,
                      <<connector_to_response(Len(db) + 1,
                           ManualRow(customer, app_name, display_name, credentials))>>)
    /\ UNCHANGED <<now, store, issued, consumed, cb, sw, dc, sy, jobs, az, env>>

-----------------------------------------------------------------------------
(* The ORM session: an object keeps the column values it was loaded with and
   its current ones; commit writes the columns whose value differs from the
   loaded one, and leaves the others of the row as they are in the table. *)

SessionObject(id, row) == [id |-> id, loaded |-> row, cur |-> row]

Dirty(obj) == {f \in DOMAIN obj.cur : obj.cur[f] # obj.loaded[f]}

\* a flush that writes every column of the object, changed or not
FlushWholeRow(row, obj) == [f \in DOMAIN row |-> obj.cur[f]]

FlushRow(row, obj) == [f \in DOMAIN row |-> IF f \in Dirty(obj) THEN obj.cur[f] ELSE row[f]]

-----------------------------------------------------------------------------
(* disconnect_connector *)

IdleDisconnect == [pc |-> "idle", id |-> 0, customer |-> NoneVal, obj |-> SessionObject(0, NoRow)]

\* the assignments of lines 327-330
Disconnected(row) ==
    [row EXCEPT !.credentials = EmptyDict,
                !.connection_status = "disconnected",
                !.status_message = "Disconnected by user",
                !.is_active = FALSE]

\* select ... where id and customer_id; 404 when there is no such row
DisconnectLoad(r, customer, id) ==
    /\ dc[r].pc = "idle"
    /\ IF r = 1 THEN TRUE ELSE dc[r - 1].pc # "idle"
    /\ id \in DOMAIN db
    /\ dc' = [dc EXCEPT ![r] =
                IF db[id] = NoRow \/ db[id].customer_id # customer
                THEN [@ EXCEPT !.pc = "notfound", !.id = id, !.customer = customer]
                ELSE [pc |-> "loaded", id |-> id, customer |-> customer,
                      obj |-> SessionObject(id, db[id])]]
    /\ UNCHANGED <<now, store, issued, consumed, db, origin, cb, sw, sy, jobs, az, fn, env>>

\* the assignments and db.commit()
DisconnectCommit(r) ==
    LET obj == [dc[r].obj EXCEPT !.cur = Disconnected(@)]
    IN  /\ dc[r].pc = "loaded"
        /\ db' = [db EXCEPT ![obj.id] = FlushRow(@, obj)]
        /\ dc' = [dc EXCEPT ![r].pc = "done", ![r].obj = obj]
        /\ UNCHANGED <<now, store, issued, consumed, origin, cb, sw, sy, jobs, az, fn, env>>

-----------------------------------------------------------------------------
(* health_check_loop *)

\* what the userinfo endpoint answers to a probe: an HTTP status, or 0 with the
\* text of the exception when no answer arrives
NoProbe == [status |-> -1, cause |-> ""]

\* what the token endpoint answers to a refresh, when it is not called
NotCalled == << <<"not", "called">> >>

\* a check that files every rejected probe under the same message
check_connection_health_one_message(answer) ==
    IF answer.status = 200 THEN <<TRUE, "Connected">>
    ELSE IF answer.status # 0 THEN <<FALSE, "Token expired or revoked">>
    ELSE <<FALSE, answer.cause>>

\* check_connection_health, for a provider with a userinfo_url
check_connection_health(answer) ==
    IF answer.status = 200 THEN <<TRUE, "Connected">>
    ELSE IF answer.status = 401 THEN <<FALSE, "Token expired or revoked">>
    ELSE IF answer.status # 0 THEN <<FALSE, "HTTP " \o ToString(answer.status)>>
    ELSE <<FALSE, answer.cause>>

\* OAuthService.check_connection_health called by itself: fn holds the provider,
\* the access token and what the userinfo endpoint will answer if it is called
CheckHealth ==
    /\ fn.pc = "call"
    /\ fn' = IF fn.provider.userinfo_url = ""
             THEN [fn EXCEPT !.pc = "returned",
                             !.result = <<TRUE, "No health check endpoint">>]
             ELSE [fn EXCEPT !.pc = "returned", !.requests = @ + 1,
                             !.result = check_connection_health(fn.answer)]
    /\ UNCHANGED <<now, store, issued, consumed, db, origin, cb, sw, dc, sy, jobs, az, env>>

\* a select that does not look at auth_method
SelectedAnyMethod(row) ==
    /\ row # NoRow
    /\ row.is_active = TRUE
    /\ row.connection_status # "disconnected"

\* the select of the cycle
Selected(row) ==
    /\ row # NoRow
    /\ row.auth_method = "oauth"
    /\ row.is_active = TRUE
    /\ row.connection_status # "disconnected"

\* the two `continue`s: probed connectors have a known provider with a userinfo_url
\* and an access token
Probeable(row) ==
    /\ get_provider(row.app_name) # NoProvider
    /\ get_provider(row.app_name).userinfo_url # ""
    /\ DictGet(row.credentials, "access_token", "") # ""

SweepObject(id, row) ==
    [id |-> id, loaded |-> row, cur |-> row,
     probe |-> NoProbe,        \* history: the answer to its probe in this cycle
     refreshes |-> 0,          \* history: refresh_access_token calls made for it in this cycle
     refresh |-> NotCalled]    \* history: the answer to its refresh

\* ids in ascending order, as a sequence
RECURSIVE Ascending(_)
Ascending(ids) ==
    IF ids = {} THEN << >>
    ELSE LET m == CHOOSE x \in ids : \A y \in ids : x <= y
         IN  <<m>> \o Ascending(ids \ {m})

RECURSIVE FlushAll(_, _)
FlushAll(table, objs) ==
    IF objs = << >> THEN table
    ELSE FlushAll([table EXCEPT ![Head(objs).id] = FlushRow(@, Head(objs))], Tail(objs))

\* a stamp put on the connectors found healthy or refreshed only
StampIfConnected(obj, t) ==
    IF obj.cur.connection_status = "connected"
    THEN [obj EXCEPT !.cur.last_health_check_at = t]
    ELSE obj

\* connector.last_health_check_at = datetime.utcnow()
Stamp(obj, t) == [obj EXCEPT !.cur.last_health_check_at = t]

\* a healthy outcome that leaves the old diagnostic in place
MarkConnectedKeepsMessage(obj) == [obj EXCEPT !.cur.connection_status = "connected"]

MarkConnected(obj) ==
    [obj EXCEPT !.cur.connection_status = "connected", !.cur.status_message = NoneVal]

MarkError(obj, message) ==
    [obj EXCEPT !.cur.connection_status = "error", !.cur.status_message = message]

\* a refresh that stores the new access token and forgets a rotated refresh token
RefreshedKeepsOldRefresh(creds, new_tokens) ==
    DictSet(creds, "access_token",
            DictGet(new_tokens, "access_token", DictGet(creds, "access_token", "")))

\* lines 58-61: the credentials after a successful refresh
Refreshed(creds, new_tokens) ==
    LET access_token == DictGet(creds, "access_token", "")
        c1 == DictSet(creds, "access_token", DictGet(new_tokens, "access_token", access_token))
    IN  IF DictHas(new_tokens, "refresh_token")
        THEN DictSet(c1, "refresh_token", DictGet(new_tokens, "refresh_token", ""))
        ELSE c1

\* the for loop from connector i + 1 to its next await: the probe of the next
\* probed connector, or db.commit() after the last
SweepContinue(task, table) ==
    LET next == {j \in DOMAIN task.objs : j > task.i /\ Probeable(task.objs[j].loaded)}
    IN  /\ sw' = IF next = {}
                 THEN [task EXCEPT !.pc = "commit", !.i = 0]
                 ELSE [task EXCEPT !.pc = "probe",
                                   !.i = CHOOSE j \in next : \A k \in next : j <= k]
        /\ db' = table

\* the flush of the cycle meets a row that is gone: its UPDATE matches no row
Stale(table, objs) ==
    \E k \in DOMAIN objs : Dirty(objs[k]) # {} /\ table[objs[k].id] = NoRow

\* the table after db.commit(): one transaction for the whole cycle, rolled
\* back as a whole when the flush raises
CommitResult(table, objs) ==
    IF Stale(table, objs) THEN table ELSE FlushAll(table, objs)

\* asyncio.sleep is over and the select is answered
SweepSelect(limit) ==
    LET ids == Ascending({id \in DOMAIN db : Selected(db[id])})
        task == [sw EXCEPT !.cycles = @ + 1, !.i = 0, !.message = "",
                           !.objs = [k \in DOMAIN ids |-> SweepObject(ids[k], db[ids[k]])]]
    IN  /\ sw.pc = "sleep"
        /\ sw.cycles < limit
        /\ now' = now + HEALTH_CHECK_INTERVAL
        /\ SweepContinue(task, db)
        /\ UNCHANGED <<store, issued, consumed, origin, cb, dc, sy, jobs, az, fn, env>>

\* check_connection_health returns
SweepProbe(answer) ==
    LET obj == [sw.objs[sw.i] EXCEPT !.probe = answer]
        health == check_connection_health(answer)
        refresh_token == DictGet(obj.loaded.credentials, "refresh_token", "")
    IN  /\ sw.pc = "probe"
        /\ IF health[1]
           THEN SweepContinue([sw EXCEPT !.objs[sw.i] = Stamp(MarkConnected(obj), now)], db)
           ELSE IF refresh_token # ""
           THEN /\ sw' = [sw EXCEPT !.pc = "refresh", !.message = health[2],
                                     !.objs[sw.i] = [obj EXCEPT !.refreshes = @ + 1]]
                /\ UNCHANGED db
           ELSE SweepContinue([sw EXCEPT !.objs[sw.i] = Stamp(MarkError(obj, health[2]), now)],
                              db)
        /\ UNCHANGED <<now, store, issued, consumed, origin, cb, dc, sy, jobs, az, fn, env>>

\* refresh_access_token returns or raises
SweepRefresh(answer) ==
    LET obj == [sw.objs[sw.i] EXCEPT !.refresh = answer]
        done == IF answer = Failed
                THEN MarkError(obj, sw.message)
                ELSE MarkConnected([obj EXCEPT !.cur.credentials =
                                        Refreshed(obj.loaded.credentials, answer)])
    IN  /\ sw.pc = "refresh"
        /\ SweepContinue([sw EXCEPT !.message = "", !.objs[sw.i] = Stamp(done, now)], db)
        /\ UNCHANGED <<now, store, issued, consumed, origin, cb, dc, sy, jobs, az, fn, env>>

\* a commit that raises ends the task instead of the cycle
SweepCommitRaises ==
    /\ sw.pc = "commit"
    /\ sw' = [sw EXCEPT !.pc = IF Stale(db, sw.objs) THEN "crashed" ELSE "sleep",
                        !.logged = IF Stale(db, sw.objs) THEN @ + 1 ELSE @]
    /\ db' = CommitResult(db, sw.objs)
    /\ UNCHANGED <<now, store, issued, consumed, origin, cb, dc, sy, jobs, az, fn, env>>

\* await db.commit() returns or raises; `except Exception` prints, and the
\* loop goes back to its sleep
SweepCommit ==
    /\ sw.pc = "commit"
    /\ sw' = [sw EXCEPT !.pc = "sleep", !.logged = IF Stale(db, sw.objs) THEN @ + 1 ELSE @]
    /\ db' = CommitResult(db, sw.objs)
    /\ UNCHANGED <<now, store, issued, consumed, origin, cb, dc, sy, jobs, az, fn, env>>

\* a cancellation that lands in a commit which writes connection_status alone
SweepCancelTornCommit(committed) ==
    /\ sw.pc \in {"sleep", "probe", "refresh", "commit"}
    /\ committed => sw.pc = "commit"
    /\ sw' = [sw EXCEPT !.pc = "cancelled"]
    /\ db' = IF committed
             THEN [id \in DOMAIN db |->
                     IF \E k \in DOMAIN sw.objs : sw.objs[k].id = id /\ db[id] # NoRow
                     THEN LET o == sw.objs[CHOOSE k \in DOMAIN sw.objs : sw.objs[k].id = id]
                          IN  [db[id] EXCEPT !.connection_status = o.cur.connection_status]
                     ELSE db[id]]
             ELSE db
    /\ UNCHANGED <<now, store, issued, consumed, origin, cb, dc, sy, jobs, az, fn, env>>

\* lifespan shutdown: health_task.cancel() raises CancelledError at the await
\* the task is suspended in; it is not an Exception, so it leaves the loop, and
\* the session is closed without a commit.  A commit already under way is
\* applied as a whole or not at all.
SweepCancel(committed) ==
    /\ sw.pc \in {"sleep", "probe", "refresh", "commit"}
    /\ committed => sw.pc = "commit"
    /\ sw' = [sw EXCEPT !.pc = "cancelled"]
    /\ db' = IF committed THEN CommitResult(db, sw.objs) ELSE db
    /\ UNCHANGED <<now, store, issued, consumed, origin, cb, dc, sy, jobs, az, fn, env>>

-----------------------------------------------------------------------------
(* delete_connector *)

Deleted == {id \in DOMAIN db : db[id] = NoRow}

\* select, 404 when the connector is not the customer's, delete, commit; the
\* row read by the select is used for its identity only
DeleteConnector(customer, id, limit) ==
    /\ Cardinality(Deleted) < limit
    /\ id \in DOMAIN db
    /\ db' = IF db[id] # NoRow /\ db[id].customer_id = customer
             THEN [db EXCEPT ![id] = NoRow]
             ELSE db
    /\ fn' = IF db[id] # NoRow /\ db[id].customer_id = customer
             THEN Answered("delete_connector", customer, id, 200, << >>)
             ELSE Answered("delete_connector", customer, id, 404, << >>)
    /\ UNCHANGED <<now, store, issued, consumed, origin, cb, sw, dc, sy, jobs, az, env>>

-----------------------------------------------------------------------------
(* sync_connector and NotionSyncService.sync_connector *)

\* a sync that goes on without a secret
ApiKeyOrAnonymous(creds) ==
    IF DictGet(creds, "api_key", "") # "" THEN DictGet(creds, "api_key", "")
    ELSE IF DictGet(creds, "access_token", "") # "" THEN DictGet(creds, "access_token", "")
    ELSE "anonymous"

\* creds.get("api_key") or creds.get("access_token", "")
ApiKey(creds) ==
    IF DictGet(creds, "api_key", "") # "" THEN DictGet(creds, "api_key", "")
    ELSE DictGet(creds, "access_token", "")

\* a job created in the status the ingestion queue gives to waiting jobs
JobRowPending(customer_id, display_name, t) ==
    [customer_id |-> customer_id,
     source_type |-> "notion",
     source_filename |-> "Notion Sync - " \o display_name,
     status |-> "pending",
     started_at |-> t,
     chunks_created |-> 0,
     error_message |-> NoneVal,
     completed_at |-> NoTime]

\* IngestionJob(...) as the adapter creates it
JobRow(customer_id, display_name, t) ==
    [customer_id |-> customer_id,
     source_type |-> "notion",
     source_filename |-> "Notion Sync - " \o display_name,
     status |-> "processing",
     started_at |-> t,
     chunks_created |-> 0,
     error_message |-> NoneVal,
     completed_at |-> NoTime]

IdleSync ==
    [pc |-> "idle", customer |-> NoneVal, obj |-> SessionObject(0, NoRow),
     id |-> 0,               \* connector_id of the request
     job |-> 0,              \* id of the job row of this attempt, 0 when it has none
     pages |-> << >>,        \* what the listing returned
     i |-> 0,                \* the page being fetched
     results |-> << >>,      \* history: the answer to the fetch of each page so far
     all_chunks |-> 0,       \* len(all_chunks)
     calls |-> 0,            \* history: calls made to Notion and to the ingestion service
     status_code |-> 0,      \* the HTTP status of the response
     message |-> ""]         \* str(e) of the exception that ended the attempt

\* str(e) of a raised exception
Cause(answer) == DictGet(answer, "raised", "")

\* a failure that stamps the connector all the same
SyncFailStamps(r, req, cause) ==
    LET obj == [req.obj EXCEPT !.cur.last_synced_at = now]
    IN  /\ sy' = [sy EXCEPT ![r] = [req EXCEPT !.pc = "done", !.status_code = 500,
                                               !.message = cause, !.obj = obj]]
        /\ jobs' = [jobs EXCEPT ![req.job] = [@ EXCEPT !.status = "failed",
                                                        !.error_message = cause,
                                                        !.completed_at = now]]
        /\ db' = [db EXCEPT ![obj.id] = FlushRow(@, obj)]

\* lines 101-106, then the handler's HTTP 500
SyncFail(r, req, cause) ==
    /\ sy' = [sy EXCEPT ![r] = [req EXCEPT !.pc = "done", !.status_code = 500,
                                           !.message = cause]]
    /\ jobs' = [jobs EXCEPT ![req.job] = [@ EXCEPT !.status = "failed",
                                                    !.error_message = cause,
                                                    !.completed_at = now]]
    /\ db' = db

\* lines 93-99 and 108: the job is completed, the connector stamped, one commit
SyncFinish(r, req) ==
    LET obj == [req.obj EXCEPT !.cur.last_synced_at = now]
    IN  /\ sy' = [sy EXCEPT ![r] = [req EXCEPT !.pc = "done", !.status_code = 200,
                                               !.obj = obj]]
        /\ jobs' = [jobs EXCEPT ![req.job] = [@ EXCEPT !.status = "completed",
                                                        !.chunks_created = req.all_chunks,
                                                        !.completed_at = now]]
        /\ db' = [db EXCEPT ![obj.id] = FlushRow(@, obj)]

\* a handler that lets inactive connectors through to the adapter
SyncStartInactiveToo(r, customer, id) ==
    LET row == db[id]
        answer(code, text) == [sy[r] EXCEPT !.pc = "done", !.customer = customer, !.id = id,
                                            !.status_code = code, !.message = text]
    IN  /\ sy[r].pc = "idle"
        /\ IF r = 1 THEN TRUE ELSE sy[r - 1].pc # "idle"
        /\ id \in DOMAIN db
        /\ IF row = NoRow
           THEN /\ sy' = [sy EXCEPT ![r] = answer(404, "Connector not found")]
                /\ jobs' = jobs
           ELSE IF row.customer_id # customer
           THEN /\ sy' = [sy EXCEPT ![r] = answer(404, "Connector not found")]
                /\ jobs' = jobs
           ELSE IF row.app_name \notin SYNCABLE_APPS
           THEN /\ sy' = [sy EXCEPT ![r] = answer(400, "Sync not supported")]
                /\ jobs' = jobs
           ELSE IF ApiKey(row.credentials) = ""
           THEN /\ sy' = [sy EXCEPT ![r] =
                            [answer(500, "Notion API key not configured")
                                EXCEPT !.obj = SessionObject(id, row)]]
                /\ jobs' = jobs
           ELSE /\ sy' = [sy EXCEPT ![r] = [@ EXCEPT !.pc = "search", !.customer = customer, !.id = id,
                                                      !.obj = SessionObject(id, row),
                                                      !.job = Len(jobs) + 1]]
                /\ jobs' = Append(jobs, JobRow(row.customer_id, row.display_name, now))
        /\ UNCHANGED <<now, store, issued, consumed, db, origin, cb, sw, dc, az, fn, env>>

\* the handler up to the adapter's first await: the commit of the new job
SyncStart(r, customer, id) ==
    LET row == db[id]
        answer(code, text) == [sy[r] EXCEPT !.pc = "done", !.customer = customer, !.id = id,
                                            !.status_code = code, !.message = text]
    IN  /\ sy[r].pc = "idle"
        /\ IF r = 1 THEN TRUE ELSE sy[r - 1].pc # "idle"
        /\ id \in DOMAIN db
        /\ IF row = NoRow
           THEN /\ sy' = [sy EXCEPT ![r] = answer(404, "Connector not found")]
                /\ jobs' = jobs
           ELSE IF row.customer_id # customer
           THEN /\ sy' = [sy EXCEPT ![r] = answer(404, "Connector not found")]
                /\ jobs' = jobs
           ELSE IF row.app_name \notin SYNCABLE_APPS
           THEN /\ sy' = [sy EXCEPT ![r] = answer(400, "Sync not supported")]
                /\ jobs' = jobs
           ELSE IF ~row.is_active
           THEN /\ sy' = [sy EXCEPT ![r] = answer(400, "Connector is inactive")]
                /\ jobs' = jobs
           ELSE IF ApiKey(row.credentials) = ""
           THEN /\ sy' = [sy EXCEPT ![r] =
                            [answer(500, "Notion API key not configured")
                                EXCEPT !.obj = SessionObject(id, row)]]
                /\ jobs' = jobs
           ELSE /\ sy' = [sy EXCEPT ![r] = [@ EXCEPT !.pc = "search", !.customer = customer, !.id = id,
                                                      !.obj = SessionObject(id, row),
                                                      !.job = Len(jobs) + 1]]
                /\ jobs' = Append(jobs, JobRow(row.customer_id, row.display_name, now))
        /\ UNCHANGED <<now, store, issued, consumed, db, origin, cb, sw, dc, az, fn, env>>

\* _search_pages returns the pages or raises
SyncSearch(r, answer) ==
    LET req == [sy[r] EXCEPT !.calls = @ + 1]
    IN  /\ sy[r].pc = "search"
        /\ IF DictHas(answer, "raised")
           THEN SyncFail(r, req, Cause(answer))
           ELSE IF answer = << >>
           THEN SyncFinish(r, [req EXCEPT !.pages = answer])
           ELSE /\ sy' = [sy EXCEPT ![r] = [req EXCEPT !.pc = "page", !.pages = answer,
                                                        !.i = 1]]
                /\ UNCHANGED <<jobs, db>>
        /\ UNCHANGED <<now, store, issued, consumed, origin, cb, sw, dc, az, fn, env>>

\* the chunks one fetched page adds: none when the fetch or the extraction
\* raised, none when the text is shorter than 10 characters
PageChunks(answer) ==
    IF answer.raised \/ answer.text_len < 10 THEN 0 ELSE answer.chunks

\* a failed page that fails the sync
SyncPageAborts(r, answer) ==
    LET req == [sy[r] EXCEPT !.calls = @ + 1, !.results = Append(@, answer),
                             !.all_chunks = @ + PageChunks(answer)]
    IN  /\ sy[r].pc = "page"
        /\ IF answer.raised
           THEN SyncFail(r, req, "page failed")
           ELSE IF req.i < Len(req.pages)
           THEN /\ sy' = [sy EXCEPT ![r] = [req EXCEPT !.i = @ + 1]]
                /\ UNCHANGED <<jobs, db>>
           ELSE IF req.all_chunks > 0
           THEN /\ sy' = [sy EXCEPT ![r] = [req EXCEPT !.pc = "ingest", !.i = 0]]
                /\ UNCHANGED <<jobs, db>>
           ELSE SyncFinish(r, [req EXCEPT !.i = 0])
        /\ UNCHANGED <<now, store, issued, consumed, origin, cb, sw, dc, az, fn, env>>

\* _get_page_text returns or raises, chunk_text cuts the text; then the next
\* page, the ingestion of the chunks, or the end of the sync
SyncPage(r, answer) ==
    LET req == [sy[r] EXCEPT !.calls = @ + 1, !.results = Append(@, answer),
                             !.all_chunks = @ + PageChunks(answer)]
    IN  /\ sy[r].pc = "page"
        /\ IF req.i < Len(req.pages)
           THEN /\ sy' = [sy EXCEPT ![r] = [req EXCEPT !.i = @ + 1]]
                /\ UNCHANGED <<jobs, db>>
           ELSE IF req.all_chunks > 0
           THEN /\ sy' = [sy EXCEPT ![r] = [req EXCEPT !.pc = "ingest", !.i = 0]]
                /\ UNCHANGED <<jobs, db>>
           ELSE SyncFinish(r, [req EXCEPT !.i = 0])
        /\ UNCHANGED <<now, store, issued, consumed, origin, cb, sw, dc, az, fn, env>>

\* ingestion_service._process_chunks returns or raises
SyncIngest(r, answer) ==
    LET req == [sy[r] EXCEPT !.calls = @ + 1]
    IN  /\ sy[r].pc = "ingest"
        /\ IF DictHas(answer, "raised")
           THEN SyncFail(r, req, Cause(answer))
           ELSE SyncFinish(r, req)
        /\ UNCHANGED <<now, store, issued, consumed, origin, cb, sw, dc, az, fn, env>>

-----------------------------------------------------------------------------
(* NotionSyncService._search_pages called by itself.  The endpoint serves a
   chain of responses; cursor k asks for the k-th, a request without cursor
   for the first. *)

NoCursor == 0        \* start_cursor is None

\* the response to a request carrying this cursor
Respond(chain, cursor) == chain[IF cursor = NoCursor THEN 1 ELSE cursor]

\* a loop that takes the first response for the whole listing
HasMoreNever(data) == FALSE

\* data.get("has_more", False)
HasMore(data) == data.has_more

\* one turn of the while loop: the request, the response, the three assignments
SearchRequest ==
    LET data == Respond(fn.chain, fn.start_cursor)
    IN  /\ fn.pc = "loop"
        /\ fn' = [fn EXCEPT !.requests = Append(@, fn.start_cursor),
                            !.pages = @ \o data.results,
                            !.has_more = HasMore(data),
                            !.start_cursor = data.next_cursor,
                            !.pc = IF HasMore(data) THEN "loop" ELSE "returned"]
        /\ UNCHANGED <<now, store, issued, consumed, db, origin, cb, sw, dc, sy, jobs, az, env>>

-----------------------------------------------------------------------------
(* get_api_keys.  A secret is the sequence of its characters. *)

Ellipsis == <<".", ".", ".">>

\* key[:n]
Head_(key, n) == SubSeq(key, 1, IF Len(key) < n THEN Len(key) ELSE n)

\* key[-n:]
Tail_(key, n) == SubSeq(key, IF Len(key) < n THEN 1 ELSE Len(key) - n + 1, Len(key))

\* a masking that shows both ends from eleven characters on
MaskedFromEleven(key) ==
    IF Len(key) >= 11 THEN Head_(key, 7) \o Ellipsis \o Tail_(key, 4)
    ELSE Head_(key, 4) \o Ellipsis

\* key[:7] + "..." + key[-4:] if len(key) > 11 else key[:4] + "..."
Masked(key) ==
    IF Len(key) > 11 THEN Head_(key, 7) \o Ellipsis \o Tail_(key, 4)
    ELSE Head_(key, 4) \o Ellipsis

\* customer.openai_api_key is None, and openai_key_masked is None
NoKey == <<NoneVal>>

\* get_api_keys, for the customer whose two keys fn holds
GetApiKeys ==
    /\ fn.pc = "call"
    /\ fn' = [fn EXCEPT !.pc = "returned",
                        !.api_key_masked = Masked(fn.api_key),
                        !.has_openai_key = fn.openai_api_key # NoKey,
                        !.openai_key_masked = IF fn.openai_api_key # NoKey
                                                 /\ fn.openai_api_key # << >>
                                              THEN Masked(fn.openai_api_key)
                                              ELSE NoKey]
    /\ UNCHANGED <<now, store, issued, consumed, db, origin, cb, sw, dc, sy, jobs, az, env>>

-----------------------------------------------------------------------------
(* The clock *)

Tick(d) ==
    /\ now + d <= MaxTime
    /\ now' = now + d
    /\ UNCHANGED <<store, issued, consumed, db, origin, cb, sw, dc, sy, jobs, az, fn, env>>

-----------------------------------------------------------------------------
(* The handshake alone: authorize, callback and the clock *)

Init ==
    /\ now = 0
    /\ store = << >>
    /\ issued = << >>
    /\ consumed = << >>
    /\ db = << >>
    /\ origin = << >>
    /\ cb = [r \in 1..MaxCallbacks |-> IdleCallback]
    /\ sw = [pc |-> "sleep", cycles |-> 0, i |-> 0, message |-> "", objs |-> << >>,
             logged |-> 0]
    /\ dc = [r \in 1..MaxDisconnects |-> IdleDisconnect]
    /\ sy = << >>
    /\ jobs = << >>
    /\ az = NoAuthorize
    /\ fn = NoCall
    /\ env = LocalDeployment

\* who asks for which provider
FlowAuthorizeRequests ==
    {<<"cust1", "notion">>, <<"cust2", "trello">>, <<"cust1", "freshdesk">>,
     <<"cust2", "custom">>, <<"cust2", "not-a-real-app">>}

\* query strings of the callbacks delivered: well-formed, provider error, code or state missing
FlowCallbackRequests ==
    {[error |-> "", code |-> "code", state |-> s] : s \in {Forged} \cup (1..MaxTokens)}
    \cup {[error |-> "access_denied", code |-> "", state |-> s] : s \in 1..MaxTokens}
    \cup {[error |-> "", code |-> "", state |-> s] : s \in 1..MaxTokens}
    \cup {[error |-> "", code |-> "code", state |-> NoParam]}

FlowTokenResponses ==
    {<< <<"access_token", "at1">>, <<"refresh_token", "rt1">>, <<"token_type", "bearer">> >>,
     << <<"token_type", "bearer">> >>}

FlowIdentities == {<< <<"id", "acct1">>, <<"email", "a@example.com">> >>, EmptyDict}

NextFlow ==
    \/ \E q \in FlowAuthorizeRequests : OAuthAuthorize(q[1], q[2])
    \/ \E r \in DOMAIN cb, q \in FlowCallbackRequests :
          CallbackStart(r, q.error, q.code, q.state)
    \/ \E r \in DOMAIN cb, a \in FlowTokenResponses \cup {Failed} : CallbackExchange(r, a)
    \/ \E r \in DOMAIN cb, a \in FlowIdentities \cup {Failed} : CallbackUserinfo(r, a)
    \/ \E d \in {TTL, TTL + 1} : Tick(d)

SpecFlow == Init /\ [][NextFlow]_vars

\* the handshake of a customer who already holds a connector, made by an
\* earlier handshake for the account that this one will name again
InitReconnect ==
    /\ now = 0
    /\ store = << >>
    /\ issued = << >>
    /\ consumed = << >>
    /\ db = <<OAuthRow("cust1", get_provider("notion"),
                       CallbackCredentials(<< <<"access_token", "at1">>,
                                              <<"refresh_token", "rt1">>,
                                              <<"token_type", "bearer">> >>),
                       "a@example.com", "acct1")>>
    /\ origin = <<0>>
    /\ cb = [r \in 1..MaxCallbacks |-> IdleCallback]
    /\ sw = [pc |-> "sleep", cycles |-> 0, i |-> 0, message |-> "", objs |-> << >>,
             logged |-> 0]
    /\ dc = << >>
    /\ sy = << >>
    /\ jobs = << >>
    /\ az = NoAuthorize
    /\ fn = NoCall
    /\ env = LocalDeployment

SpecReconnect == InitReconnect /\ [][NextFlow]_vars

\* the handshake in each of several deployments: API_BASE_URL not set, set to
\* the public address, or set to it with a trailing slash; the API reached on
\* the developer's machine or under the public address
Deployments ==
    [environ : {EmptyDict,
                << <<"API_BASE_URL", <<"https://api.example.com">> >> >>,
                << <<"API_BASE_URL", <<"https://api.example.com", "/">> >> >>},
     base_url : {<<"http://localhost:8000", "/">>, <<"https://api.example.com", "/">>}]

InitDeployed ==
    /\ now = 0
    /\ store = << >>
    /\ issued = << >>
    /\ consumed = << >>
    /\ db = << >>
    /\ origin = << >>
    /\ cb = [r \in 1..MaxCallbacks |-> IdleCallback]
    /\ sw = [pc |-> "sleep", cycles |-> 0, i |-> 0, message |-> "", objs |-> << >>,
             logged |-> 0]
    /\ dc = << >>
    /\ sy = << >>
    /\ jobs = << >>
    /\ az = NoAuthorize
    /\ fn = NoCall
    /\ env \in Deployments

SpecDeployed == InitDeployed /\ [][NextFlow]_vars

-----------------------------------------------------------------------------
(* The lifecycle: connectors are made by the handshake or entered by hand,
   swept by the background task and disconnected by their owners.  Time
   passes while the sweeper sleeps. *)

LifeAuthorizeRequests == {<<"cust1", "notion">>, <<"cust2", "trello">>}

LifeCallbackRequests == {[error |-> "", code |-> "code", state |-> s] : s \in 1..MaxTokens}

LifeTokenResponses ==
    {<< <<"access_token", "at1">>, <<"refresh_token", "rt1">>, <<"token_type", "bearer">> >>,
     << <<"access_token", "at1">>, <<"token_type", "bearer">> >>}

LifeIdentities == {<< <<"id", "acct1">>, <<"email", "a@example.com">> >>}

LifeManualRequests ==
    {[customer |-> "cust2", app_name |-> "Custom", display_name |-> NoneVal,
      credentials |-> << <<"api_key", "k1">> >>]}

ProbeAnswers ==
    {[status |-> 200, cause |-> ""], [status |-> 401, cause |-> ""],
     [status |-> 500, cause |-> ""]}

RefreshResponses ==
    {<< <<"access_token", "at2">> >>,
     << <<"access_token", "at2">>, <<"refresh_token", "rt2">> >>}

NextLife ==
    \/ \E q \in LifeAuthorizeRequests : OAuthAuthorize(q[1], q[2])
    \/ \E r \in DOMAIN cb, q \in LifeCallbackRequests :
          CallbackStart(r, q.error, q.code, q.state)
    \/ \E r \in DOMAIN cb, a \in LifeTokenResponses \cup {Failed} : CallbackExchange(r, a)
    \/ \E r \in DOMAIN cb, a \in LifeIdentities : CallbackUserinfo(r, a)
    \/ \E q \in LifeManualRequests :
          CreateConnector(q.customer, q.app_name, q.display_name, q.credentials)
    \/ \E r \in DOMAIN dc, c \in Customers, id \in DOMAIN db : DisconnectLoad(r, c, id)
    \/ \E r \in DOMAIN dc : DisconnectCommit(r)
    \/ SweepSelect(MaxCycles)
    \/ \E a \in ProbeAnswers : SweepProbe(a)
    \/ \E a \in RefreshResponses \cup {Failed} : SweepRefresh(a)
    \/ SweepCommit

\* here every handshake is ended by one callback
InitLife ==
    /\ now = 0
    /\ store = << >>
    /\ issued = << >>
    /\ consumed = << >>
    /\ db = << >>
    /\ origin = << >>
    /\ cb = [r \in 1..MaxTokens |-> IdleCallback]
    /\ sw = [pc |-> "sleep", cycles |-> 0, i |-> 0, message |-> "", objs |-> << >>,
             logged |-> 0]
    /\ dc = [r \in 1..MaxDisconnects |-> IdleDisconnect]
    /\ sy = << >>
    /\ jobs = << >>
    /\ az = NoAuthorize
    /\ fn = NoCall
    /\ env = LocalDeployment

SpecLife == InitLife /\ [][NextLife]_vars

-----------------------------------------------------------------------------
(* The sweeper alone, against disconnects: the table starts with connectors
   as the handshake, manual entry and earlier sweep cycles leave them. *)

NotionCredentials ==
    CallbackCredentials(<< <<"access_token", "at1">>, <<"refresh_token", "rt1">>,
                           <<"token_type", "bearer">> >>)

NotionRow == OAuthRow("cust1", get_provider("notion"), NotionCredentials,
                      "a@example.com", "acct1")

\* a row as an earlier cycle at time t left it in error
ErrorRow(row, message, t) ==
    [row EXCEPT !.connection_status = "error", !.status_message = message,
                !.last_health_check_at = t]

SweepInitialRows ==
    LET noRefresh == [NotionRow EXCEPT !.credentials =
                        CallbackCredentials(<< <<"access_token", "at1">>,
                                               <<"token_type", "bearer">> >>)]
        noAccess == OAuthRow("cust1", get_provider("notion"),
                             CallbackCredentials(<< <<"token_type", "bearer">> >>), "", "")
    IN  {NotionRow, noRefresh, noAccess,
         ErrorRow(noRefresh, "Token expired or revoked", HEALTH_CHECK_INTERVAL),
         OAuthRow("cust2", get_provider("trello"), NotionCredentials, "", ""),
         ManualRow("cust2", "Custom", NoneVal, << <<"api_key", "k1">> >>)}

InitSweep ==
    /\ now = HEALTH_CHECK_INTERVAL
    /\ store = << >>
    /\ issued = << >>
    /\ consumed = << >>
    /\ db \in [1..SweptRows -> SweepInitialRows]
    /\ origin = [i \in 1..SweptRows |-> 0]
    /\ cb = << >>
    /\ sw = [pc |-> "sleep", cycles |-> 0, i |-> 0, message |-> "", objs |-> << >>,
             logged |-> 0]
    /\ dc = [r \in 1..SweptDisconnects |-> IdleDisconnect]
    /\ sy = << >>
    /\ jobs = << >>
    /\ az = NoAuthorize
    /\ fn = NoCall
    /\ env = LocalDeployment

NextSweep ==
    \/ SweepSelect(SweptCycles)
    \/ \E a \in ProbeAnswers : SweepProbe(a)
    \/ \E a \in RefreshResponses \cup {Failed} : SweepRefresh(a)
    \/ SweepCommit
    \/ \E r \in DOMAIN dc, id \in DOMAIN db : DisconnectLoad(r, db[id].customer_id, id)
    \/ \E r \in DOMAIN dc : DisconnectCommit(r)

SpecSweep == InitSweep /\ [][NextSweep]_vars

-----------------------------------------------------------------------------
(* One sweep cycle over several connectors, against deletions *)

CycleProbeAnswers ==
    ProbeAnswers \cup {[status |-> 0, cause |-> ""]}    \* an exception whose str() is empty

\* rows the handlers can have written: two OAuth connectors, and a manually
\* created one that names an OAuth provider and holds OAuth-looking secrets
CycleInitialRows ==
    {NotionRow,
     [NotionRow EXCEPT !.credentials =
         CallbackCredentials(<< <<"access_token", "at1">>, <<"token_type", "bearer">> >>)],
     ManualRow("cust2", "notion", NoneVal,
               << <<"access_token", "at1">>, <<"refresh_token", "rt1">> >>)}

InitCycle ==
    /\ now = HEALTH_CHECK_INTERVAL
    /\ store = << >>
    /\ issued = << >>
    /\ consumed = << >>
    /\ db \in [1..CycleRows -> CycleInitialRows]
    /\ origin = [i \in 1..CycleRows |-> 0]
    /\ cb = << >>
    /\ sw = [pc |-> "sleep", cycles |-> 0, i |-> 0, message |-> "", objs |-> << >>,
             logged |-> 0]
    /\ dc = << >>
    /\ sy = << >>
    /\ jobs = << >>
    /\ az = NoAuthorize
    /\ fn = NoCall
    /\ env = LocalDeployment

NextCycle ==
    \/ SweepSelect(CycleCycles)
    \/ \E a \in CycleProbeAnswers : SweepProbe(a)
    \/ \E a \in RefreshResponses \cup {Failed} : SweepRefresh(a)
    \/ SweepCommit
    \/ \E id \in DOMAIN db : DeleteConnector(db[id].customer_id, id, CycleDeletes)

SpecCycle == InitCycle /\ [][NextCycle]_vars

-----------------------------------------------------------------------------
(* The sweeper as a task: cycle after cycle, until the process shuts down *)

TaskProbeAnswers == {[status |-> 200, cause |-> ""], [status |-> 401, cause |-> ""]}

TaskRefreshResponses == {<< <<"access_token", "at2">>, <<"refresh_token", "rt2">> >>, Failed}

\* an OAuth connector, or a manually created one that names an OAuth provider
\* and holds OAuth-looking secrets
TaskInitialRows ==
    {NotionRow,
     ManualRow("cust2", "notion", NoneVal,
               << <<"access_token", "at1">>, <<"refresh_token", "rt1">> >>)}

InitTask ==
    /\ now = HEALTH_CHECK_INTERVAL
    /\ store = << >>
    /\ issued = << >>
    /\ consumed = << >>
    /\ db \in [1..TaskRows -> TaskInitialRows]
    /\ origin = [i \in 1..TaskRows |-> 0]
    /\ cb = << >>
    /\ sw = [pc |-> "sleep", cycles |-> 0, i |-> 0, message |-> "", objs |-> << >>,
             logged |-> 0]
    /\ dc = << >>
    /\ sy = << >>
    /\ jobs = << >>
    /\ az = NoAuthorize
    /\ fn = NoCall
    /\ env = LocalDeployment

NextTask ==
    \/ SweepSelect(TaskCycles)
    \/ \E a \in TaskProbeAnswers : SweepProbe(a)
    \/ \E a \in TaskRefreshResponses : SweepRefresh(a)
    \/ SweepCommit
    \/ \E committed \in BOOLEAN : SweepCancel(committed)
    \/ \E id \in DOMAIN db : DeleteConnector(db[id].customer_id, id, TaskDeletes)

SpecTask == InitTask /\ [][NextTask]_vars

\* the sleep ends, and the awaited calls return: they carry timeouts of 15 and 30 s
SpecTaskLive ==
    /\ SpecTask
    /\ WF_vars(SweepSelect(TaskCycles))
    /\ WF_vars(\E a \in TaskProbeAnswers : SweepProbe(a))
    /\ WF_vars(\E a \in TaskRefreshResponses : SweepRefresh(a))
    /\ WF_vars(SweepCommit)

-----------------------------------------------------------------------------
(* Syncs of the connectors of a table *)

\* connectors the handlers can have written: OAuth and manual ones with a
\* secret, three without (an exchange that returned no access token, a manual
\* entry without api_key, a disconnected one), and one of an app without sync
SyncInitialRows ==
    {NotionRow,
     OAuthRow("cust2", get_provider("notion"), NotionCredentials, "b@example.com", "acct2"),
     ManualRow("cust1", "notion", NoneVal, << <<"api_key", "k1">> >>),
     OAuthRow("cust1", get_provider("notion"),
              CallbackCredentials(<< <<"token_type", "bearer">> >>), "", ""),
     ManualRow("cust1", "notion", NoneVal, << <<"username", "u1">> >>),
     Disconnected(NotionRow),
     OAuthRow("cust1", get_provider("trello"), NotionCredentials, "", "")}

\* the listing raises, or returns up to MaxPages pages
SearchAnswers == {Failed} \cup {[k \in 1..n |-> <<"page", k>>] : n \in 0..MaxPages}

\* the fetch of a page raises, or returns a text that chunk_text cuts in pieces
PageAnswers ==
    {[raised |-> TRUE, text_len |-> 0, chunks |-> 0],
     [raised |-> FALSE, text_len |-> 5, chunks |-> 1],
     [raised |-> FALSE, text_len |-> 40, chunks |-> 2]}

IngestAnswers == {Failed, << <<"stored", "ok">> >>}

InitSync ==
    /\ now = HEALTH_CHECK_INTERVAL
    /\ store = << >>
    /\ issued = << >>
    /\ consumed = << >>
    /\ db \in [1..SyncRows -> SyncInitialRows]
    /\ origin = [i \in 1..SyncRows |-> 0]
    /\ cb = << >>
    /\ sw = [pc |-> "sleep", cycles |-> 0, i |-> 0, message |-> "", objs |-> << >>,
             logged |-> 0]
    /\ dc = << >>
    /\ sy = [r \in 1..MaxSyncs |-> IdleSync]
    /\ jobs = << >>
    /\ az = NoAuthorize
    /\ fn = NoCall
    /\ env = LocalDeployment

NextSync ==
    \/ \E r \in DOMAIN sy, c \in Customers, id \in DOMAIN db : SyncStart(r, c, id)
    \/ \E r \in DOMAIN sy, a \in SearchAnswers : SyncSearch(r, a)
    \/ \E r \in DOMAIN sy, a \in PageAnswers : SyncPage(r, a)
    \/ \E r \in DOMAIN sy, a \in IngestAnswers : SyncIngest(r, a)

SpecSync == InitSync /\ [][NextSync]_vars

-----------------------------------------------------------------------------
(* check_connection_health by itself, on every kind of answer *)

\* statuses for which raise_for_status raises, 401 among them
ErrorStatuses == {301, 400, 401, 403, 404, 429, 500, 503}

\* str() of the other exceptions of the call: httpx timeouts (empty), a refused
\* connection, a 2xx body that is not JSON
ProbeCauses == {"", "All connection attempts failed",
                "Expecting value: line 1 column 1 (char 0)"}

HealthAnswers ==
    {[status |-> 200, cause |-> ""]}
    \cup {[status |-> c, cause |-> ""] : c \in ErrorStatuses}
    \cup {[status |-> 0, cause |-> m] : m \in ProbeCauses}

InitHealth ==
    /\ now = 0
    /\ store = << >>
    /\ issued = << >>
    /\ consumed = << >>
    /\ db = << >>
    /\ origin = << >>
    /\ cb = << >>
    /\ sw = [pc |-> "sleep", cycles |-> 0, i |-> 0, message |-> "", objs |-> << >>,
             logged |-> 0]
    /\ dc = << >>
    /\ sy = << >>
    /\ jobs = << >>
    /\ az = NoAuthorize
    /\ env = LocalDeployment
    /\ fn \in {[pc |-> "call", provider |-> PROVIDERS[i], access_token |-> t, answer |-> a,
                 requests |-> 0, result |-> <<FALSE, NoneVal>>] :
                    i \in DOMAIN PROVIDERS, t \in {"at1", "at2"}, a \in HealthAnswers}

NextHealth == CheckHealth

SpecHealth == InitHealth /\ [][NextHealth]_vars

-----------------------------------------------------------------------------
(* get_api_keys by itself, on keys of every length *)

Chars == <<"s", "k", "-", "a", "b", "c", "d", "e", "f", "0", "1", "2", "3">>

\* the key of n characters whose i-th character is Chars[(i * step) mod 13 + 1]
Secret(n, step) == [i \in 1..n |-> Chars[((i * step) % Len(Chars)) + 1]]

\* regenerate_api_key makes keys of 56 characters; shorter ones stand for them
ApiKeys == {Secret(n, 1) : n \in 1..MaxSecretLen}

\* update_openai_key accepts keys of 10 characters or more; delete_openai_key sets None
OpenAIKeys == {NoKey} \cup {Secret(n, 3) : n \in 10..MaxSecretLen}

InitKeys ==
    /\ now = 0
    /\ store = << >>
    /\ issued = << >>
    /\ consumed = << >>
    /\ db = << >>
    /\ origin = << >>
    /\ cb = << >>
    /\ sw = [pc |-> "sleep", cycles |-> 0, i |-> 0, message |-> "", objs |-> << >>,
             logged |-> 0]
    /\ dc = << >>
    /\ sy = << >>
    /\ jobs = << >>
    /\ az = NoAuthorize
    /\ env = LocalDeployment
    /\ fn \in {[pc |-> "call", api_key |-> k, openai_api_key |-> o,
                 api_key_masked |-> << >>, has_openai_key |-> FALSE,
                 openai_key_masked |-> NoKey] : k \in ApiKeys, o \in OpenAIKeys}

NextKeys == GetApiKeys

SpecKeys == InitKeys /\ [][NextKeys]_vars

-----------------------------------------------------------------------------
(* The catalog's lookups, between authorize requests *)

LookupIds == ProviderIds \cup {"not-a-real-app", "Notion"}

InitCatalog ==
    /\ now = 0
    /\ store = << >>
    /\ issued = << >>
    /\ consumed = << >>
    /\ db = << >>
    /\ origin = << >>
    /\ cb = << >>
    /\ sw = [pc |-> "sleep", cycles |-> 0, i |-> 0, message |-> "", objs |-> << >>,
             logged |-> 0]
    /\ dc = << >>
    /\ sy = << >>
    /\ jobs = << >>
    /\ az = NoAuthorize
    /\ env = LocalDeployment
    /\ fn = [pc |-> "serve", got |-> [id |-> NoneVal, result |-> NoProvider], listed |-> << >>]

NextCatalog ==
    \/ \E id \in LookupIds : GetProvider(id)
    \/ GetAllProviders
    \/ \E q \in FlowAuthorizeRequests : OAuthAuthorize(q[1], q[2])

SpecCatalog == InitCatalog /\ [][NextCatalog]_vars

-----------------------------------------------------------------------------
(* _search_pages by itself, on every chain of responses *)

\* the k-th of n responses holding `count` results: Notion pages numbered by
\* response and position; the last response reports nothing remaining, with a
\* null cursor or with a cursor nobody should follow
Response(k, n, count, lastCursor) ==
    [results |-> [j \in 1..count |-> <<"page", 10 * k + j>>],
     has_more |-> k < n,
     next_cursor |-> IF k < n THEN k + 1 ELSE lastCursor]

Chains ==
    UNION {{[k \in 1..n |-> Response(k, n, counts[k], lastCursor)] :
               counts \in [1..n -> 0..MaxItems], lastCursor \in {NoCursor, 1}} :
           n \in 1..MaxResponses}

InitSearch ==
    /\ now = 0
    /\ store = << >>
    /\ issued = << >>
    /\ consumed = << >>
    /\ db = << >>
    /\ origin = << >>
    /\ cb = << >>
    /\ sw = [pc |-> "sleep", cycles |-> 0, i |-> 0, message |-> "", objs |-> << >>,
             logged |-> 0]
    /\ dc = << >>
    /\ sy = << >>
    /\ jobs = << >>
    /\ az = NoAuthorize
    /\ env = LocalDeployment
    /\ fn \in {[pc |-> "loop", chain |-> c, pages |-> << >>, has_more |-> TRUE,
                 start_cursor |-> NoCursor, requests |-> << >>] : c \in Chains}

NextSearch == SearchRequest

SpecSearch == InitSearch /\ [][NextSearch]_vars

\* every request is answered: the client gives up after 30 s
SpecSearchLive == SpecSearch /\ WF_vars(SearchRequest)

-----------------------------------------------------------------------------
(* The state store by itself: creates and consumes as time passes *)

InitStore ==
    /\ now = 0
    /\ store = << >>
    /\ issued = << >>
    /\ consumed = << >>
    /\ db = << >>
    /\ origin = << >>
    /\ cb = << >>
    /\ sw = [pc |-> "sleep", cycles |-> 0, i |-> 0, message |-> "", objs |-> << >>,
             logged |-> 0]
    /\ dc = << >>
    /\ sy = << >>
    /\ jobs = << >>
    /\ az = NoAuthorize
    /\ fn = NoCall
    /\ env = LocalDeployment

NextStore ==
    \/ \E q \in {<<"cust1", "notion">>, <<"cust2", "trello">>} : StateStoreCreate(q[1], q[2])
    \/ \E token \in DOMAIN issued : StateStoreConsume(token)
    \/ \E d \in {TTL, TTL + 1} : Tick(d)

SpecStore == InitStore /\ [][NextStore]_vars

-----------------------------------------------------------------------------
(* Two customers at the handlers that take a connector id, and at the lists *)

\* a notion connector of each customer
OwnerInitialRows ==
    <<NotionRow,
      OAuthRow("cust2", get_provider("notion"), NotionCredentials, "b@example.com", "acct2")>>

InitOwner ==
    /\ now = HEALTH_CHECK_INTERVAL
    /\ store = << >>
    /\ issued = << >>
    /\ consumed = << >>
    /\ db = OwnerInitialRows
    /\ origin = <<0, 0>>
    /\ cb = << >>
    /\ sw = [pc |-> "sleep", cycles |-> 0, i |-> 0, message |-> "", objs |-> << >>,
             logged |-> 0]
    /\ dc = [r \in 1..OwnerRequests |-> IdleDisconnect]
    /\ sy = [r \in 1..OwnerRequests |-> IdleSync]
    /\ jobs = << >>
    /\ az = NoAuthorize
    /\ fn = NoCall
    /\ env = LocalDeployment

NextOwner ==
    \/ \E c \in Customers, id \in DOMAIN db : GetConnector(c, id)
    \/ \E c \in Customers : ListConnectors(c)
    \/ \E c \in Customers : ListApps(c)
    \/ \E c \in Customers, id \in DOMAIN db : DeleteConnector(c, id, OwnerRequests)
    \/ \E r \in DOMAIN dc, c \in Customers, id \in DOMAIN db : DisconnectLoad(r, c, id)
    \/ \E r \in DOMAIN dc : DisconnectCommit(r)
    \/ \E r \in DOMAIN sy, c \in Customers, id \in DOMAIN db : SyncStart(r, c, id)

SpecOwner == InitOwner /\ [][NextOwner]_vars

-----------------------------------------------------------------------------
(* Connectors entered by hand and then read back: the same request is made
   with each of several credential bundles. *)

CredentialBundles ==
    {<< <<"api_key", "k1">> >>,
     << <<"username", "u1">>, <<"password", "p1">> >>,
     << <<"username", "u2">>, <<"password", "p1">> >>}

ExposeRequests ==
    [customer : Customers, app_name : {"Custom", "notion"},
     display_name : {NoneVal, "My app"}, credentials : CredentialBundles]

InitExpose ==
    /\ now = 0
    /\ store = << >>
    /\ issued = << >>
    /\ consumed = << >>
    /\ db = << >>
    /\ origin = << >>
    /\ cb = << >>
    /\ sw = [pc |-> "sleep", cycles |-> 0, i |-> 0, message |-> "", objs |-> << >>,
             logged |-> 0]
    /\ dc = << >>
    /\ sy = << >>
    /\ jobs = << >>
    /\ az = NoAuthorize
    /\ fn = NoCall
    /\ env = LocalDeployment

NextExpose ==
    \/ \E q \in ExposeRequests :
          CreateConnector(q.customer, q.app_name, q.display_name, q.credentials)
    \/ \E c \in Customers, id \in DOMAIN db : GetConnector(c, id)
    \/ \E c \in Customers : ListConnectors(c)
    \/ \E c \in Customers : ListApps(c)

SpecExpose == InitExpose /\ [][NextExpose]_vars

-----------------------------------------------------------------------------
(* The state store and the callback: claims checked under SpecFlow *)

WithinTTL(token, t) == t - issued[token].created_at <= TTL

SameBinding(entry, token) ==
    /\ entry.customer_id = issued[token].customer_id
    /\ entry.provider_id = issued[token].provider_id

\* C1: of the consume calls made on a token issued by create, the first one
\* succeeds when it is made within the TTL and returns the customer and the
\* provider given to create; every later consume of the token returns None.
C1_ExactlyOneConsume ==
    \A token \in DOMAIN consumed : \A i \in DOMAIN consumed[token] :
        LET call == consumed[token][i]
        IN  /\ call.ret # NoEntry <=> (i = 1 /\ WithinTTL(token, call.at))
            /\ call.ret # NoEntry => SameBinding(call.ret, token)
            /\ (i > 1 /\ WithinTTL(token, call.at)) => call.ret = NoEntry

\* a token consumed twice within the TTL: the first call got the entry, the second None
C1_Witness ==
    \E token \in DOMAIN consumed :
        /\ Len(consumed[token]) >= 2
        /\ consumed[token][1].ret # NoEntry
        /\ WithinTTL(token, consumed[token][2].at)
        /\ consumed[token][2].ret = NoEntry

\* a callback that carried a code and a state and no provider error
WellFormed(req) == req.error = "" /\ req.code # "" /\ req.state # NoParam

\* callbacks that went through consume with this token
Consumers(token) ==
    {r \in DOMAIN cb : cb[r].pc # "idle" /\ WellFormed(cb[r]) /\ cb[r].state = token}

\* C2: of the callbacks delivered with the same state token, whatever their
\* interleaving, at most one gets an entry from consume and every other one
\* ends with invalid_state; at most one token exchange is made and at most one
\* connector is created per issued token.
C2_AtMostOnceUnderConcurrency ==
    \A token \in DOMAIN issued :
        /\ Cardinality({r \in Consumers(token) : cb[r].entry # NoEntry}) <= 1
        /\ \A r \in Consumers(token) :
              cb[r].entry = NoEntry =>
                 /\ cb[r].pc = "done"
                 /\ cb[r].redirect = <<"oauth_error", "invalid_state">>
        /\ Cardinality({r \in DOMAIN cb : cb[r].state = token /\ cb[r].exchanged}) <= 1
        /\ Cardinality({id \in DOMAIN origin : origin[id] = token}) <= 1

\* two callbacks with one token, the second arriving while the first awaits
\* the token endpoint: the second ended with invalid_state
C2_Witness ==
    \E r1, r2 \in DOMAIN cb :
        /\ r1 # r2
        /\ cb[r1].state = cb[r2].state
        /\ cb[r1].pc = "exchange"
        /\ WellFormed(cb[r2])
        /\ cb[r2].redirect = <<"oauth_error", "invalid_state">>

\* C3: a first consume made more than TTL seconds after create returns None, a
\* first consume made at most TTL seconds after create returns the entry, and
\* after either the token is not in the store.
C3_ExpiredTokenUnusable ==
    \A token \in DOMAIN consumed :
        consumed[token] # << >> =>
            LET first == consumed[token][1]
            IN  /\ first.at - issued[token].created_at > TTL => first.ret = NoEntry
                /\ first.at - issued[token].created_at <= TTL =>
                      /\ first.ret # NoEntry
                      /\ SameBinding(first.ret, token)
                      /\ first.ret.created_at = issued[token].created_at
                /\ token \notin DOMAIN store

\* a token whose first consume came after the TTL
C3_Witness ==
    \E token \in DOMAIN consumed :
        /\ consumed[token] # << >>
        /\ consumed[token][1].at - issued[token].created_at > TTL
        /\ consumed[token][1].ret = NoEntry
        /\ token \notin DOMAIN store

\* the state value is not one consume accepts now: never issued, consumed
\* before, or older than the TTL
InvalidState(token) ==
    \/ token \notin DOMAIN issued
    \/ consumed[token] # << >>
    \/ now - issued[token].created_at > TTL

\* C4: a callback whose state token is unknown, already consumed or expired
\* makes no token exchange and creates or changes no connector; when it carries
\* a code and no provider error it ends with invalid_state.
C4_InvalidStateAborts ==
    [][\A r \in DOMAIN cb :
          (cb[r].pc = "idle" /\ cb'[r].pc # "idle" /\ cb'[r].state # NoParam
              /\ InvalidState(cb'[r].state)) =>
             /\ cb'[r].pc = "done"
             /\ ~cb'[r].exchanged
             /\ cb'[r].created = 0
             /\ db' = db
             /\ origin' = origin
             /\ WellFormed(cb'[r]) => cb'[r].redirect = <<"oauth_error", "invalid_state">>
      ]_vars

\* a callback with an issued but used or expired token ended with invalid_state
C4_Witness ==
    \E r \in DOMAIN cb :
        /\ cb[r].pc = "done"
        /\ cb[r].state \in DOMAIN issued
        /\ WellFormed(cb[r])
        /\ cb[r].entry = NoEntry
        /\ cb[r].redirect = <<"oauth_error", "invalid_state">>
        /\ now - issued[cb[r].state].created_at > TTL

-----------------------------------------------------------------------------
(* The connector state machine under concurrent writers: checked under SpecLife *)

\* C5: in every reachable state a connector whose connection_status is
\* disconnected has empty credentials and is_active = FALSE.
C5_DisconnectedIsEmptyAndInactive ==
    \A id \in DOMAIN db :
        (db[id] # NoRow /\ db[id].connection_status = "disconnected") =>
            /\ db[id].credentials = EmptyDict
            /\ db[id].is_active = FALSE

\* the step sends a probe, or a refresh, for connector id
ProbeSent(id) ==
    /\ sw'.pc = "probe"
    /\ sw.pc # "probe" \/ sw.i # sw'.i \/ sw.cycles # sw'.cycles
    /\ sw'.objs[sw'.i].id = id

RefreshSent(id) ==
    /\ sw'.pc = "refresh"
    /\ sw.pc # "refresh"
    /\ sw'.objs[sw'.i].id = id

\* C6: once a disconnect is committed no later step changes the connector's
\* connection_status, credentials or is_active, and the sweeper sends no probe
\* and no refresh for it.
C6_DisconnectedIsTerminal ==
    [][\A id \in DOMAIN db :
          (db[id] # NoRow /\ db[id].connection_status = "disconnected") =>
             /\ db'[id].connection_status = "disconnected"
             /\ db'[id].credentials = db[id].credentials
             /\ db'[id].is_active = db[id].is_active
             /\ ~ProbeSent(id)
             /\ ~RefreshSent(id)
      ]_vars

\* C7: when a disconnect of an owned connector commits, the connector has empty
\* credentials, is_active = FALSE and connection_status = disconnected.
C7_DisconnectResult ==
    [][\A r \in DOMAIN dc :
          (dc[r].pc = "loaded" /\ dc'[r].pc = "done") =>
             /\ db'[dc[r].id].credentials = EmptyDict
             /\ db'[dc[r].id].is_active = FALSE
             /\ db'[dc[r].id].connection_status = "disconnected"
      ]_vars

\* the step is the commit of a sweep cycle
CycleCommits == sw.pc = "commit" /\ sw'.pc = "sleep"

\* the step is the commit of a disconnect of connector id
DisconnectCommits(id) ==
    \E r \in DOMAIN dc : dc[r].pc = "loaded" /\ dc'[r].pc = "done" /\ dc[r].id = id

\* the committing cycle probed connector id and found no recovery / recovered it
SweepGaveUp(id) ==
    /\ CycleCommits
    /\ \E k \in DOMAIN sw'.objs :
          LET o == sw'.objs[k]
          IN  /\ o.id = id
              /\ o.probe.status \notin {NoProbe.status, 200}
              /\ \/ DictGet(o.loaded.credentials, "refresh_token", "") = ""
                 \/ o.refresh = Failed

SweepRecovered(id) ==
    /\ CycleCommits
    /\ \E k \in DOMAIN sw'.objs :
          LET o == sw'.objs[k]
          IN  /\ o.id = id
              /\ \/ o.probe.status = 200
                 \/ o.refresh \notin {NotCalled, Failed}

\* C8: connection_status is one of connected, error, disconnected; a connector
\* is created connected; connected -> error only by a sweep whose probe failed
\* with no refresh token or a failed refresh; error -> connected only by a sweep
\* whose probe or refresh succeeded; connected|error -> disconnected only by a
\* disconnect; there is no other change of status.
C8_StatusStateMachine ==
    [][/\ \A id \in DOMAIN db' \ DOMAIN db : db'[id].connection_status = "connected"
       /\ \A id \in DOMAIN db :
             LET a == db[id].connection_status
                 b == db'[id].connection_status
             IN  /\ b \in {"connected", "error", "disconnected"}
                 /\ a # b =>
                      \/ a = "connected" /\ b = "error" /\ SweepGaveUp(id)
                      \/ a = "error" /\ b = "connected" /\ SweepRecovered(id)
                      \/ a \in {"connected", "error"} /\ b = "disconnected"
                            /\ DisconnectCommits(id)
      ]_vars

-----------------------------------------------------------------------------
(* One sweep cycle on one connector: checked under SpecSweep *)

\* the connector was selected by the cycle and is still active when it commits
SweptActive(o) ==
    /\ o.loaded.auth_method = "oauth"
    /\ o.loaded.is_active
    /\ o.loaded.connection_status \in {"connected", "error"}
    /\ db[o.id].is_active

Keys(d) == {d[i][1] : i \in DOMAIN d}

\* C9: a cycle that probes an active OAuth connector (connected or error) whose
\* access token the provider accepts commits connection_status = connected and
\* status_message = None, leaves the credentials as they were, and makes no
\* refresh call.
C9_HealthyProbeLeavesConnected ==
    [][CycleCommits =>
          \A k \in DOMAIN sw'.objs :
             LET o == sw'.objs[k]
             IN  (SweptActive(o) /\ o.probe.status = 200) =>
                    /\ db'[o.id].connection_status = "connected"
                    /\ db'[o.id].status_message = NoneVal
                    /\ db'[o.id].credentials = o.loaded.credentials
                    /\ db'[o.id].credentials = db[o.id].credentials
                    /\ o.refreshes = 0
                    /\ o.refresh = NotCalled
      ]_vars

\* a connector that was in error was probed healthy and is connected, message cleared
C9_Witness ==
    /\ sw.pc = "sleep"
    /\ \E k \in DOMAIN sw.objs :
          LET o == sw.objs[k]
          IN  /\ o.probe.status = 200
              /\ o.loaded.connection_status = "error"
              /\ o.loaded.status_message # NoneVal
              /\ db[o.id].connection_status = "connected"
              /\ db[o.id].status_message = NoneVal
              /\ db[o.id].last_health_check_at = now

\* C10: a cycle that finds the access token of an active connector rejected,
\* the bundle holding a refresh token the provider honours, makes exactly one
\* refresh call and commits connected with the message cleared; the bundle then
\* holds the access token just issued, the refresh token just issued if there
\* is one and the old one otherwise, and its other fields as before.
C10_RefreshUpdatesCredentials ==
    [][CycleCommits =>
          \A k \in DOMAIN sw'.objs :
             LET o == sw'.objs[k]
                 old == o.loaded.credentials
                 new == db'[o.id].credentials
             IN  (/\ SweptActive(o)
                  /\ o.probe.status \notin {NoProbe.status, 200}
                  /\ DictGet(old, "refresh_token", "") # ""
                  /\ o.refresh # Failed) =>
                    /\ o.refreshes = 1
                    /\ o.refresh # NotCalled
                    /\ db'[o.id].connection_status = "connected"
                    /\ db'[o.id].status_message = NoneVal
                    /\ DictGet(new, "access_token", "") = DictGet(o.refresh, "access_token", "")
                    /\ DictGet(new, "refresh_token", "") =
                          IF DictHas(o.refresh, "refresh_token")
                          THEN DictGet(o.refresh, "refresh_token", "")
                          ELSE DictGet(old, "refresh_token", "")
                    /\ Keys(new) = Keys(old)
                    /\ \A key \in Keys(old) \ {"access_token", "refresh_token"} :
                          DictGet(new, key, "") = DictGet(old, key, "")
      ]_vars

\* a rejected access token was replaced, and the refresh token rotated, in one call
C10_Witness ==
    /\ sw.pc = "sleep"
    /\ \E k \in DOMAIN sw.objs :
          LET o == sw.objs[k]
          IN  /\ o.probe.status = 401
              /\ o.refreshes = 1
              /\ DictHas(o.refresh, "refresh_token")
              /\ db[o.id].connection_status = "connected"
              /\ DictGet(db[o.id].credentials, "access_token", "") = "at2"
              /\ DictGet(db[o.id].credentials, "refresh_token", "") = "rt2"
              /\ DictGet(db[o.id].credentials, "token_type", "") = "bearer"

-----------------------------------------------------------------------------
(* One cycle over several connectors: checked under SpecCycle *)

\* the cycle found connector o unhealthy and had no way to recover it
NoRecovery(o) ==
    /\ o.probe.status \notin {NoProbe.status, 200}
    /\ \/ DictGet(o.loaded.credentials, "refresh_token", "") = ""
       \/ o.refresh = Failed

\* C11: a cycle whose probe of a connector is unhealthy, with no refresh token
\* in the bundle or with a refresh call that fails, commits connection_status =
\* error and status_message = the message of the health probe, which is not
\* empty, and leaves the stored credentials as they were.
C11_UnhealthyEndsInError ==
    [][(CycleCommits /\ ~Stale(db, sw.objs)) =>
          \A k \in DOMAIN sw.objs :
             LET o == sw.objs[k]
             IN  NoRecovery(o) =>
                    /\ db'[o.id].connection_status = "error"
                    /\ db'[o.id].status_message = check_connection_health(o.probe)[2]
                    /\ db'[o.id].status_message # ""
                    /\ db'[o.id].credentials = o.loaded.credentials
                    /\ db'[o.id].credentials = db[o.id].credentials
      ]_vars

\* C12: whatever happens to one connector of a cycle (its probe fails, its
\* refresh fails, its row is deleted meanwhile), every other connector of the
\* cycle that is to be probed is probed, and its update is committed when the
\* cycle ends.
C12_FailureDoesNotAbortCycle ==
    [][CycleCommits =>
          \A k \in DOMAIN sw.objs :
             LET o == sw.objs[k]
             IN  (Probeable(o.loaded) /\ db[o.id] # NoRow) =>
                    /\ o.probe # NoProbe
                    /\ db'[o.id] = FlushRow(db[o.id], o)
                    /\ db'[o.id].last_health_check_at # NoTime
      ]_vars

-----------------------------------------------------------------------------
(* The sweeper as a task: checked under SpecTaskLive and SpecTask *)

\* C13: an exception raised inside a cycle does not end the sweeper: as long
\* as the task is not cancelled it goes on to start the next cycle, and so
\* starts every cycle up to the bound on cycles.
C13_SweeperKeepsCycling ==
    \A k \in 1..TaskCycles : <>(sw.cycles >= k \/ sw.pc = "cancelled")

\* a cycle has ended in the except branch and a later cycle is under way
C13_Witness ==
    /\ sw.logged >= 1
    /\ sw.cycles >= 2
    /\ sw.pc \in {"probe", "refresh", "commit"}

\* C14: cancelling the sweeper at any of its awaits (sleep, probe, refresh,
\* commit) stops the task, and leaves every connector row either as it was or
\* with all the fields the interrupted cycle wrote for it (status, message,
\* credentials, last_health_check_at); once cancelled the task takes no step
\* and writes no row.
C14_CancelLeavesNoPartialUpdate ==
    [][/\ (sw.pc # "cancelled" /\ sw'.pc = "cancelled") =>
             /\ sw.pc \in {"sleep", "probe", "refresh", "commit"}
             /\ \A id \in DOMAIN db :
                   \/ db'[id] = db[id]
                   \/ \E k \in DOMAIN sw.objs :
                         /\ sw.objs[k].id = id
                         /\ db'[id] = FlushRow(db[id], sw.objs[k])
       /\ sw.pc = "cancelled" =>
             /\ sw' = sw
             /\ \A id \in DOMAIN db : db'[id] \in {db[id], NoRow}
      ]_vars

\* a cycle that had an update ready was cancelled, and the row holds none of it
C14_Witness ==
    /\ sw.pc = "cancelled"
    /\ \E k \in DOMAIN sw.objs :
          LET o == sw.objs[k]
          IN  /\ o.cur.connection_status = "error"
              /\ o.cur.last_health_check_at # NoTime
              /\ db[o.id] = o.loaded
              /\ db[o.id].connection_status = "connected"

\* C15: a connector with auth_method = credential is never loaded by a sweep
\* cycle: no probe and no refresh call is made for it and no step of the
\* sweeper changes any of its fields, even when its app_name is an OAuth
\* provider's and its credentials hold an access token and a refresh token.
C15_CredentialConnectorsNeverSwept ==
    [][\A id \in DOMAIN db :
          (db[id] # NoRow /\ db[id].auth_method = "credential") =>
             /\ ~ProbeSent(id)
             /\ ~RefreshSent(id)
             /\ \A k \in DOMAIN sw'.objs : sw'.objs[k].id # id
             /\ db'[id] \in {db[id], NoRow}
             /\ sw' # sw => db'[id] = db[id]
      ]_vars

\* a cycle has run past a manually created connector that it could have probed
C15_Witness ==
    /\ sw.cycles >= 1
    /\ sw.pc = "sleep"
    /\ \E id \in DOMAIN db :
          /\ db[id] # NoRow
          /\ db[id].auth_method = "credential"
          /\ db[id].is_active
          /\ db[id].connection_status = "connected"
          /\ Probeable(db[id])
          /\ DictGet(db[id].credentials, "refresh_token", "") # ""
          /\ db[id].last_health_check_at = NoTime

-----------------------------------------------------------------------------
(* Syncs: checked under SpecSync *)

\* the bundle holds neither an api key nor an access token
NoSecret(creds) ==
    DictGet(creds, "api_key", "") = "" /\ DictGet(creds, "access_token", "") = ""

\* the step answers request r, made by the owner of the connector it names
SyncAnswered(r) == sy[r].pc = "idle" /\ sy'[r].pc # "idle" /\ sy'[r].obj.id # 0

\* C16: a sync of a connector whose bundle holds no usable secret is answered
\* at once with the missing-credential failure: no call to Notion or to the
\* ingestion service is made, no job row is created (so no completed job with
\* zero chunks), and the connector's connection_status, status_message and
\* last_synced_at stay as they were.
C16_MissingCredentialFailsFast ==
    [][\A r \in DOMAIN sy :
          (SyncAnswered(r) /\ NoSecret(sy'[r].obj.loaded.credentials)) =>
             /\ sy'[r].pc = "done"
             /\ sy'[r].status_code = 500
             /\ sy'[r].message = "Notion API key not configured"
             /\ sy'[r].calls = 0
             /\ sy'[r].job = 0
             /\ jobs' = jobs
             /\ db' = db
      ]_vars

\* a sync of an active notion connector without a secret has been refused
C16_Witness ==
    \E r \in DOMAIN sy :
        /\ sy[r].pc = "done"
        /\ sy[r].obj.id # 0
        /\ sy[r].obj.loaded.is_active
        /\ NoSecret(sy[r].obj.loaded.credentials)
        /\ sy[r].status_code = 500
        /\ sy[r].calls = 0
        /\ db[sy[r].obj.id] = sy[r].obj.loaded
        /\ \A j \in DOMAIN jobs : jobs[j].status # "completed"

\* C17: every sync attempt that fails unrecoverably (no usable secret, the
\* listing raises, the ingestion raises) leaves a job row of the attempt with
\* status failed and the cause as its error_message.
C17_FailedSyncLeavesJobRecord ==
    \A r \in DOMAIN sy :
        (sy[r].pc = "done" /\ sy[r].status_code = 500) =>
            /\ sy[r].job \in DOMAIN jobs
            /\ jobs[sy[r].job].status = "failed"
            /\ jobs[sy[r].job].error_message = sy[r].message

\* the number of chunks produced from the pages whose fetch succeeded
RECURSIVE Produced(_)
Produced(results) ==
    IF results = << >> THEN 0
    ELSE (IF ~Head(results).raised /\ Head(results).text_len >= 10
          THEN Head(results).chunks ELSE 0) + Produced(Tail(results))

\* C18: in a sync, a page whose fetch or extraction fails is skipped: the
\* failure does not fail the job, every listed page is still fetched, and the
\* job of a sync that comes to its end is completed with chunks_created equal
\* to the number of chunks produced from the pages that succeeded.
C18_PageFailureIsSkipped ==
    [][\A r \in DOMAIN sy :
          /\ (sy[r].pc = "page" /\ sy'[r] # sy[r]) =>
                /\ sy'[r].status_code # 500
                /\ jobs'[sy[r].job].status # "failed"
                /\ Len(sy'[r].results) = Len(sy[r].results) + 1
          /\ (sy[r].pc # "done" /\ sy'[r].pc = "done" /\ sy'[r].status_code = 200) =>
                /\ Len(sy'[r].results) = Len(sy'[r].pages)
                /\ jobs'[sy'[r].job].status = "completed"
                /\ jobs'[sy'[r].job].chunks_created = Produced(sy'[r].results)
      ]_vars

\* a sync with a failed page and a page that gave chunks has completed
C18_Witness ==
    \E r \in DOMAIN sy :
        /\ sy[r].pc = "done"
        /\ sy[r].status_code = 200
        /\ \E k \in DOMAIN sy[r].results : sy[r].results[k].raised
        /\ \E k \in DOMAIN sy[r].results : sy[r].results[k].chunks = 2 /\ ~sy[r].results[k].raised
        /\ jobs[sy[r].job].status = "completed"
        /\ jobs[sy[r].job].chunks_created = 2

-----------------------------------------------------------------------------
(* The callback's answers: checked under SpecFlow *)

\* C19: every callback that ends without creating a connector ends in a
\* redirect to the admin URL whose oauth_error parameter is missing_params,
\* invalid_state, unknown_provider or the id of the provider, and nothing else.
C19_CallbackErrorKinds ==
    \A r \in DOMAIN cb :
        (cb[r].pc = "done" /\ cb[r].created = 0) =>
            /\ cb[r].redirect[1] = "oauth_error"
            /\ cb[r].redirect[2] \in
                  {"missing_params", "invalid_state", "unknown_provider"} \cup ProviderIds

-----------------------------------------------------------------------------
(* A second handshake for the same account: checked under SpecReconnect *)

\* C20: connector creation is idempotent per identity: however many handshakes
\* complete for one customer, provider and external account, the table holds
\* one connector for that identity.
C20_OneConnectorPerIdentity ==
    \A i, j \in DOMAIN db :
        (/\ i # j
         /\ db[i] # NoRow /\ db[j] # NoRow
         /\ db[i].external_account_id # NoneVal
         /\ db[i].customer_id = db[j].customer_id
         /\ db[i].app_name = db[j].app_name
         /\ db[i].external_account_id = db[j].external_account_id) => FALSE

-----------------------------------------------------------------------------
(* The handshake's calls and what it creates: checked under SpecFlow *)

\* the callback's last provider call, and how it ended
LastCall(req) == IF req.calls = << >> THEN <<NoneVal, NoneVal>> ELSE req.calls[Len(req.calls)]

\* the handler of request r ends with this step, the code exchange having
\* returned, without an identity: fetch_user_info raised, or was not called
\* because the provider has no userinfo_url
EndsWithoutIdentity(r) ==
    /\ cb[r].pc \in {"exchange", "userinfo"}
    /\ cb'[r].pc = "done"
    /\ \/ LastCall(cb'[r]) = <<"fetch_user_info", "raised">>
       \/ /\ LastCall(cb'[r]) = <<"exchange_code", "returned">>
          /\ get_provider(cb[r].entry.provider_id).userinfo_url = ""

\* C21: identity fetching is best-effort: when the code exchange returned and
\* fetch_user_info raised, or the provider has no userinfo_url, the callback
\* still creates a connector, connected, named after the provider, with no
\* external account id and no external account name, and redirects with success.
C21_IdentityIsBestEffort ==
    [][\A r \in DOMAIN cb :
          EndsWithoutIdentity(r) =>
              LET provider == get_provider(cb[r].entry.provider_id)
                  id == cb'[r].created
              IN  /\ id = Len(db) + 1
                  /\ Len(db') = Len(db) + 1
                  /\ db'[id].connection_status = "connected"
                  /\ db'[id].is_active
                  /\ db'[id].display_name = provider.display_name
                  /\ db'[id].external_account_id = NoneVal
                  /\ db'[id].external_account_name = NoneVal
                  /\ cb'[r].redirect = <<"oauth_success", provider.provider_id>>]_vars

\* both cases happened: a notion connector made after fetch_user_info raised
\* is in the table, or a trello connector made without the call
C21_Witness ==
    \E r \in DOMAIN cb :
        /\ cb[r].pc = "done"
        /\ cb[r].created # 0
        /\ LastCall(cb[r]) = <<"fetch_user_info", "raised">>
        /\ db[cb[r].created].app_name = "notion"
        /\ db[cb[r].created].display_name = "Notion"

C21_WitnessNoEndpoint ==
    \E r \in DOMAIN cb :
        /\ cb[r].pc = "done"
        /\ cb[r].created # 0
        /\ cb[r].calls = << <<"exchange_code", "returned">> >>
        /\ db[cb[r].created].app_name = "trello"
        /\ db[cb[r].created].display_name = "Trello"

\* an oauth_authorize request is answered by this step
AuthorizeAnswered == az' # az

\* C22: an authorization URL requested for a catalog provider without auth_url
\* or token_url (freshdesk, custom) is refused with HTTP 400, no state token is
\* made and the state store is unchanged.
C22_UnsupportedProviderRejected ==
    [][(/\ AuthorizeAnswered
        /\ az'.provider_id \in ProviderIds
        /\ \/ get_provider(az'.provider_id).auth_url = ""
           \/ get_provider(az'.provider_id).token_url = "")
       => /\ az'.status = 400
          /\ az'.state = NoParam
          /\ store' = store
          /\ issued' = issued
          /\ consumed' = consumed]_vars

\* freshdesk was asked for and refused, with nothing in the store
C22_Witness ==
    /\ az.provider_id = "freshdesk"
    /\ az.status = 400
    /\ store = << >>
    /\ issued = << >>

-----------------------------------------------------------------------------
(* check_connection_health: checked under SpecHealth *)

\* the three classes of failure of the identity call
TokenInvalid(answer) == answer.status = 401
TransientHTTP(answer) == answer.status \notin {0, 200, 401}
UnknownFailure(answer) == answer.status = 0

\* C23: check_connection_health returns for every outcome of the identity call:
\* success gives (true, _), 401 gives (false, "Token expired or revoked"), any
\* other error status gives (false, "HTTP <code>"), any other failure gives
\* (false, cause), and a provider without userinfo_url gives (true, _) without
\* a request; messages of different failure classes differ.
C23_CheckHealthClassifies ==
    fn.pc = "returned" =>
        /\ fn.provider.userinfo_url = "" => fn.result[1] /\ fn.requests = 0
        /\ fn.provider.userinfo_url # "" =>
              /\ fn.requests = 1
              /\ fn.answer.status = 200 => fn.result[1]
              /\ TokenInvalid(fn.answer) => fn.result = <<FALSE, "Token expired or revoked">>
              /\ TransientHTTP(fn.answer) =>
                    fn.result = <<FALSE, "HTTP " \o ToString(fn.answer.status)>>
              /\ UnknownFailure(fn.answer) => fn.result = <<FALSE, fn.answer.cause>>
              /\ \A a \in HealthAnswers :
                    (\/ TokenInvalid(fn.answer) /\ ~TokenInvalid(a)
                     \/ TransientHTTP(fn.answer) /\ ~TransientHTTP(a)
                     \/ UnknownFailure(fn.answer) /\ ~UnknownFailure(a))
                    => check_connection_health(a)[2] # fn.result[2]

\* the check returned on a server error of a provider that has the endpoint
C23_Witness ==
    /\ fn.pc = "returned"
    /\ fn.provider.provider_id = "notion"
    /\ fn.answer.status = 503
    /\ fn.result = <<FALSE, "HTTP 503">>

-----------------------------------------------------------------------------
(* get_api_keys: checked under SpecKeys *)

\* m is what the masking rule shows of the secret s
MaskOf(s, m) ==
    IF Len(s) > 11
    THEN /\ Len(m) = 14
         /\ \A i \in 1..7 : m[i] = s[i]
         /\ \A i \in 8..10 : m[i] = "."
         /\ \A i \in 1..4 : m[10 + i] = s[Len(s) - 4 + i]
    ELSE /\ Len(s) >= 4 => Len(m) = 7
         /\ Len(s) < 4 => Len(m) = Len(s) + 3
         /\ \A i \in 1..(Len(m) - 3) : m[i] = s[i]
         /\ \A i \in (Len(m) - 2)..Len(m) : m[i] = "."

\* C24: a secret longer than 11 characters is shown as its first 7 characters,
\* "..." and its last 4 characters, any other as its first 4 characters and
\* "..."; the API key and the OpenAI key are masked by the same rule.
C24_MaskingRule ==
    fn.pc = "returned" =>
        /\ MaskOf(fn.api_key, fn.api_key_masked)
        /\ fn.openai_api_key # NoKey => MaskOf(fn.openai_api_key, fn.openai_key_masked)

\* a 28-character API key and a 10-character OpenAI key were masked
C24_Witness ==
    /\ fn.pc = "returned"
    /\ Len(fn.api_key) = 28
    /\ Len(fn.api_key_masked) = 14
    /\ fn.openai_api_key # NoKey
    /\ Len(fn.openai_api_key) = 10
    /\ Len(fn.openai_key_masked) = 7

-----------------------------------------------------------------------------
(* The catalog: checked under SpecCatalog *)

\* the descriptors of the catalog, as a set
Descriptors == {PROVIDERS[i] : i \in DOMAIN PROVIDERS}

\* C25: get_provider returns the descriptor whose id is the argument for every
\* id of the catalog and nothing for any other id; "notion" has auth_url,
\* token_url and userinfo_url and supports sync; "not-a-real-app" is absent;
\* get_all_providers returns the same descriptors in the same order at every
\* call, whatever happened in between.
C25_CatalogLookup ==
    /\ fn.got.id \in ProviderIds =>
          fn.got.result \in Descriptors /\ fn.got.result.provider_id = fn.got.id
    /\ (fn.got.id # NoneVal /\ fn.got.id \notin ProviderIds) => fn.got.result = NoProvider
    /\ fn.got.id = "notion" =>
          /\ fn.got.result.auth_url # ""
          /\ fn.got.result.token_url # ""
          /\ fn.got.result.userinfo_url # ""
          /\ fn.got.result.supports_sync
    /\ fn.got.id = "not-a-real-app" => fn.got.result = NoProvider
    /\ \A k \in DOMAIN fn.listed :
          /\ fn.listed[k] = fn.listed[1]
          /\ [i \in DOMAIN fn.listed[k] |-> fn.listed[k][i].provider_id]
                = <<"notion", "trello", "freshdesk", "custom">>
          /\ \A i \in DOMAIN fn.listed[k] :
                get_provider(fn.listed[k][i].provider_id) = fn.listed[k][i]

\* the catalog was listed twice, a state token was issued in between or after,
\* and an unknown id was looked up
C25_Witness ==
    /\ Len(fn.listed) = 2
    /\ az.status = 200
    /\ fn.got.id = "not-a-real-app"
    /\ fn.got.result = NoProvider

-----------------------------------------------------------------------------
(* Order and binding of the handshake: checked under SpecFlow *)

\* C26: a connector exists only where a callback's consume returned the entry
\* of its state token and the code exchange then returned; its customer_id and
\* app_name are the customer and the provider given to create when the token
\* was issued.
C26_CreatedAfterConsumeAndExchange ==
    /\ \A id \in DOMAIN db : \E r \in DOMAIN cb : cb[r].created = id
    /\ \A r \in DOMAIN cb :
          cb[r].created # 0 =>
              LET token == cb[r].state
                  id == cb[r].created
              IN  /\ WellFormed(cb[r])
                  /\ token \in DOMAIN issued
                  /\ consumed[token] # << >>
                  /\ consumed[token][1].ret = cb[r].entry
                  /\ cb[r].entry # NoEntry
                  /\ SameBinding(cb[r].entry, token)
                  /\ cb[r].calls # << >>
                  /\ cb[r].calls[1] = <<"exchange_code", "returned">>
                  /\ origin[id] = token
                  /\ db[id].customer_id = issued[token].customer_id
                  /\ db[id].app_name = issued[token].provider_id

\* the token issued to cust2 for trello was brought back and made cust2's
\* trello connector
C26_Witness ==
    \E r \in DOMAIN cb :
        /\ cb[r].created # 0
        /\ issued[cb[r].state].customer_id = "cust2"
        /\ db[cb[r].created].customer_id = "cust2"
        /\ db[cb[r].created].app_name = "trello"

\* the exchange of callback r was rejected
ExchangeRejected(r) == cb[r].calls = << <<"exchange_code", "raised">> >>

\* C27: when the token exchange is rejected the callback redirects with the
\* provider id as error and creates no connector; the state token stays
\* consumed, so every later callback with the same state ends with
\* invalid_state and a new handshake has to start from authorize.
C27_RejectedExchangeEndsHandshake ==
    \A r \in DOMAIN cb :
        ExchangeRejected(r) =>
            /\ cb[r].pc = "done"
            /\ cb[r].redirect = <<"oauth_error", issued[cb[r].state].provider_id>>
            /\ cb[r].created = 0
            /\ \A id \in DOMAIN origin : origin[id] # cb[r].state
            /\ cb[r].state \notin DOMAIN store
            /\ \A q \in DOMAIN cb :
                  (q > r /\ cb[q].pc # "idle" /\ WellFormed(cb[q]) /\ cb[q].state = cb[r].state)
                  => /\ cb[q].pc = "done"
                     /\ cb[q].redirect = <<"oauth_error", "invalid_state">>
                     /\ cb[q].calls = << >>

\* the exchange of the first callback was rejected and the callback was
\* delivered again with the same state
C27_Witness ==
    /\ ExchangeRejected(1)
    /\ cb[2].pc = "done"
    /\ WellFormed(cb[2])
    /\ cb[2].state = cb[1].state
    /\ cb[2].redirect = <<"oauth_error", "invalid_state">>

-----------------------------------------------------------------------------
(* What a cycle stamps: checked under SpecSweep *)

\* the cycle called check_connection_health for the connector
Probed(o) == o.probe # NoProbe

\* the reasons for which the loop passes over a loaded connector
Skipped(row) ==
    \/ row.app_name \notin ProviderIds
    \/ get_provider(row.app_name).userinfo_url = ""
    \/ DictGet(row.credentials, "access_token", "") = ""

\* C28: when a cycle commits, last_health_check_at of a connector it loaded is
\* set to the time of the check if and only if the connector was probed,
\* whether it was found healthy, refreshed or left in error; a connector passed
\* over (unknown provider, no userinfo_url, no access token) is written with no
\* change at all, and so is every connector the cycle did not load.
C28_StampedIffProbed ==
    [][CycleCommits =>
          /\ \A k \in DOMAIN sw.objs :
                LET o == sw.objs[k]
                IN  /\ Probed(o) <=> ~Skipped(o.loaded)
                    /\ Probed(o) =>
                          /\ db'[o.id].last_health_check_at = now
                          /\ db'[o.id].last_health_check_at # o.loaded.last_health_check_at
                    /\ ~Probed(o) => db'[o.id] = db[o.id]
          /\ \A id \in DOMAIN db :
                (\A k \in DOMAIN sw.objs : sw.objs[k].id # id) => db'[id] = db[id]
      ]_vars

\* a cycle left a connector in error, with the stamp of the check
C28_Witness ==
    /\ sw.pc = "sleep"
    /\ sw.cycles >= 1
    /\ \E k \in DOMAIN sw.objs :
          /\ Probed(sw.objs[k])
          /\ sw.objs[k].probe.status # 200
          /\ db[sw.objs[k].id].connection_status = "error"
          /\ db[sw.objs[k].id].last_health_check_at = now

\* a cycle passed over a connector without access token and left it unstamped
C28_WitnessSkipped ==
    /\ sw.pc = "sleep"
    /\ sw.cycles >= 1
    /\ \E k \in DOMAIN sw.objs :
          /\ ~Probed(sw.objs[k])
          /\ db[sw.objs[k].id].last_health_check_at = NoTime

-----------------------------------------------------------------------------
(* The listing loop: checked under SpecSearchLive *)

\* the results of the first k responses of the chain, in order
RECURSIVE Collected(_, _)
Collected(chain, k) ==
    IF k = 0 THEN << >> ELSE Collected(chain, k - 1) \o chain[k].results

\* C29: fed any finite chain of responses, the listing loop terminates, having
\* sent one request per response (the first without a cursor, each later one
\* with the cursor of the response before it) and holding the results of all
\* responses in order.
C29_ListingFollowsCursorToTheEnd ==
    <>(/\ fn.pc = "returned"
       /\ Len(fn.requests) = Len(fn.chain)
       /\ fn.requests[1] = NoCursor
       /\ \A k \in 2..Len(fn.requests) : fn.requests[k] = fn.chain[k - 1].next_cursor
       /\ \A k \in 2..Len(fn.requests) : fn.requests[k] = k
       /\ fn.pages = Collected(fn.chain, Len(fn.chain)))

\* a chain of three responses was followed to its end, two results in each
C29_Witness ==
    /\ fn.pc = "returned"
    /\ Len(fn.chain) = 3
    /\ fn.requests = <<NoCursor, 2, 3>>
    /\ Len(fn.pages) = 6

-----------------------------------------------------------------------------
(* The sync stamp: checked under SpecSync *)

\* request r ends with this step
SyncEnds(r) == sy[r].pc # "done" /\ sy'[r].pc = "done"

\* C30: a sync writes the connector's last_synced_at if and only if it ends
\* with a completed job; a sync that fails (no usable secret, the listing
\* raises, the ingestion raises) or is refused leaves last_synced_at as it was.
C30_StampedIffCompleted ==
    [][/\ \A r \in DOMAIN sy :
             SyncEnds(r) =>
                IF sy'[r].status_code = 200
                THEN /\ jobs'[sy'[r].job].status = "completed"
                     /\ db'[sy'[r].obj.id].last_synced_at = now
                ELSE /\ \A id \in DOMAIN db : db'[id].last_synced_at = db[id].last_synced_at
                     /\ sy'[r].job # 0 => jobs'[sy'[r].job].status = "failed"
       /\ \A id \in DOMAIN db :
             db'[id].last_synced_at # db[id].last_synced_at =>
                \E r \in DOMAIN sy :
                   /\ SyncEnds(r)
                   /\ sy'[r].obj.id = id
                   /\ sy'[r].job \in DOMAIN jobs'
                   /\ jobs'[sy'[r].job].status = "completed"
      ]_vars

\* a sync has completed and its connector carries the stamp
C30_Witness ==
    \E r \in DOMAIN sy :
        /\ sy[r].pc = "done"
        /\ sy[r].status_code = 200
        /\ jobs[sy[r].job].status = "completed"
        /\ db[sy[r].obj.id].last_synced_at = now

\* a sync failed in the ingestion and its connector carries no stamp
C30_WitnessFailed ==
    \E r \in DOMAIN sy :
        /\ sy[r].pc = "done"
        /\ sy[r].status_code = 500
        /\ sy[r].all_chunks > 0
        /\ jobs[sy[r].job].status = "failed"
        /\ db[sy[r].obj.id].last_synced_at = NoTime

-----------------------------------------------------------------------------
(* Syncs of inactive connectors: checked under SpecSync *)

\* C31: a sync request of a customer on an own connector with is_active false
\* (a disconnected one among them) is refused by the handler: no call to Notion
\* or to the ingestion service is made, no job row is created and no connector
\* changes.
C31_InactiveConnectorNotSynced ==
    [][\A r \in DOMAIN sy :
          (/\ sy[r].pc = "idle" /\ sy'[r].pc # "idle"
           /\ db[sy'[r].id] # NoRow
           /\ db[sy'[r].id].customer_id = sy'[r].customer
           /\ ~db[sy'[r].id].is_active)
          => /\ sy'[r].pc = "done"
             /\ sy'[r].status_code = 400
             /\ sy'[r].calls = 0
             /\ sy'[r].job = 0
             /\ jobs' = jobs
             /\ db' = db
      ]_vars

\* the sync of a disconnected notion connector was refused as inactive
C31_Witness ==
    \E r \in DOMAIN sy :
        /\ sy[r].pc = "done"
        /\ sy[r].id \in DOMAIN db
        /\ db[sy[r].id].app_name = "notion"
        /\ db[sy[r].id].connection_status = "disconnected"
        /\ ~db[sy[r].id].is_active
        /\ sy[r].status_code = 400
        /\ sy[r].message = "Connector is inactive"
        /\ jobs = << >>

-----------------------------------------------------------------------------
(* create's sweep: checked under SpecStore *)

\* create returns in this step
CreateReturns == Len(issued') = Len(issued) + 1

\* the entry is older than the TTL at time t
OlderThanTTL(entry, t) == t - entry.created_at > TTL

\* C32: right after create returns, the store holds no entry older than the
\* TTL, holds unchanged every entry it held before that is not older than the
\* TTL, and holds exactly one more entry, the new one, under a token that was
\* not in the store.
C32_CreateSweepsThenInserts ==
    [][CreateReturns =>
          LET added == DOMAIN store' \ DOMAIN store
          IN  /\ \A k \in DOMAIN store' : ~OlderThanTTL(store'[k], now)
              /\ \A k \in DOMAIN store :
                    ~OlderThanTTL(store[k], now) => (k \in DOMAIN store' /\ store'[k] = store[k])
              /\ Cardinality(added) = 1
              /\ \A k \in added :
                    store'[k] = [customer_id |-> issued'[Len(issued')].customer_id,
                                 provider_id |-> issued'[Len(issued')].provider_id,
                                 created_at |-> now]
      ]_vars

\* the third create removed the first token, never consumed and older than the
\* TTL, and kept the second, aged exactly the TTL or less
C32_Witness ==
    /\ Len(issued) = 3
    /\ consumed[1] = << >>
    /\ consumed[2] = << >>
    /\ DOMAIN store = {2, 3}
    /\ issued[3].created_at - issued[1].created_at > TTL

-----------------------------------------------------------------------------
(* Ownership: checked under SpecOwner *)

\* the connector is there and belongs to somebody else
Foreign(table, customer, id) ==
    id \in DOMAIN table /\ table[id] # NoRow /\ table[id].customer_id # customer

\* the step answers a get or a delete
Answers(handler) == fn' # fn /\ fn'.handler = handler

\* C33: get, disconnect, delete and sync asked by a customer for a connector of
\* another customer are answered not-found and change no connector and no job;
\* list_connectors and list_apps show the caller's own connectors, all of them
\* and no others.
C33_ConnectorsBelongToOneCustomer ==
    [][/\ (\E h \in {"get_connector", "delete_connector"} : Answers(h))
             => (Foreign(db, fn'.customer, fn'.id) => (fn'.status = 404 /\ db' = db))
       /\ \A r \in DOMAIN dc :
             (dc[r].pc = "idle" /\ dc'[r].pc # "idle" /\ Foreign(db, dc'[r].customer, dc'[r].id))
             => (dc'[r].pc = "notfound" /\ db' = db)
       /\ \A r \in DOMAIN dc :
             (dc[r].pc = "loaded" /\ dc'[r].pc = "done") =>
                /\ dc[r].obj.loaded.customer_id = dc[r].customer
                /\ \A id \in DOMAIN db : id # dc[r].id => db'[id] = db[id]
       /\ \A r \in DOMAIN sy :
             (sy[r].pc = "idle" /\ sy'[r].pc # "idle" /\ Foreign(db, sy'[r].customer, sy'[r].id))
             => (sy'[r].pc = "done" /\ sy'[r].status_code = 404 /\ db' = db /\ jobs' = jobs)
       /\ Answers("list_connectors") =>
             /\ \A k \in DOMAIN fn'.body : db[fn'.body[k].id].customer_id = fn'.customer
             /\ {fn'.body[k].id : k \in DOMAIN fn'.body}
                   = {id \in DOMAIN db : db[id] # NoRow /\ db[id].customer_id = fn'.customer}
       /\ Answers("list_apps") =>
             LET shown == UNION {{fn'.body[i].connections[k].id :
                                    k \in DOMAIN fn'.body[i].connections} :
                                 i \in DOMAIN fn'.body}
             IN  shown = {id \in DOMAIN db : db[id] # NoRow /\ db[id].customer_id = fn'.customer}
      ]_vars

\* a customer asked to delete the other customer's connector and got not-found;
\* a disconnect and a sync on the other customer's connector were refused too,
\* and both connectors are still in the table as they were
C33_Witness ==
    /\ fn.pc = "answered"
    /\ fn.handler = "delete_connector"
    /\ fn.status = 404
    /\ Foreign(db, fn.customer, fn.id)
    /\ \E r \in DOMAIN dc : dc[r].pc = "notfound" /\ Foreign(db, dc[r].customer, dc[r].id)
    /\ \E r \in DOMAIN sy : sy[r].status_code = 404 /\ Foreign(db, sy[r].customer, sy[r].id)
    /\ db = OwnerInitialRows

-----------------------------------------------------------------------------
(* Credentials and the responses: claims checked under SpecExpose *)

\* the table with the credential bundle of every connector replaced
WithCredentials(table, bundle) ==
    [id \in DOMAIN table |->
        IF table[id] = NoRow THEN NoRow ELSE [table[id] EXCEPT !.credentials = bundle]]

\* C34: no response of list-apps, list connectors, get connector or create
\* connector depends on the credentials: the same create request made with any
\* other credential bundle is answered the same, and a get or a list is
\* answered the same on a table that differs in the credential bundles only.
C34_ResponsesIndependentOfCredentials ==
    [][/\ \A q \in ExposeRequests :
            CreateConnector(q.customer, q.app_name, q.display_name, q.credentials)
            => \A b \in CredentialBundles :
                  fn'.body = <<connector_to_response(Len(db) + 1,
                                  ManualRow(q.customer, q.app_name, q.display_name, b))>>
       /\ \A b \in CredentialBundles :
            /\ \A c \in Customers, id \in DOMAIN db :
                  GetConnector(c, id) => fn' = GetConnectorResponse(WithCredentials(db, b), c, id)
            /\ \A c \in Customers :
                  ListConnectors(c) => fn' = ListConnectorsResponse(WithCredentials(db, b), c)
            /\ \A c \in Customers :
                  ListApps(c) => fn' = ListAppsResponse(WithCredentials(db, b), c)
      ]_vars

-----------------------------------------------------------------------------
(* The redirect_uri of a handshake: claims checked under SpecDeployed *)

\* C35: within one connect flow, the redirect_uri the callback sends in the
\* token exchange is the redirect_uri that authorize put into the authorization
\* URL for the same state token.
C35_SameRedirectUri ==
    \A r \in DOMAIN cb :
        cb[r].exchanged => cb[r].callback_url = issued[cb[r].state].redirect_uri

-----------------------------------------------------------------------------
(* Callbacks turned away before the state store is asked *)

\* the callback of slot r is delivered in this step
Delivered(r) == cb[r].pc = "idle" /\ cb'[r].pc # "idle"

\* the query string carries a provider error, or lacks code or state
Incomplete(req) == req.error # "" \/ req.code = "" \/ req.state = NoParam

\* C36: a callback that carries a provider error, or that lacks code or state,
\* leaves the state store as it was and consumes nothing; a well-formed callback
\* that brings a token within the TTL, which no consume was called on before,
\* gets the token's entry, whatever incomplete callbacks carried the token earlier.
C36_IncompleteCallbackKeepsStore ==
    [][\A r \in DOMAIN cb :
          Delivered(r) =>
             /\ Incomplete(cb'[r]) => store' = store /\ consumed' = consumed
             /\ ( /\ ~Incomplete(cb'[r])
                  /\ cb'[r].state \in DOMAIN issued
                  /\ now - issued[cb'[r].state].created_at <= TTL
                  /\ \A q \in DOMAIN cb :
                        cb[q].pc # "idle" /\ cb[q].state = cb'[r].state => Incomplete(cb[q]) )
                => /\ cb'[r].exchanged
                   /\ cb'[r].entry.customer_id = issued[cb'[r].state].customer_id
                   /\ cb'[r].entry.provider_id = issued[cb'[r].state].provider_id
                   /\ cb'[r].state \notin DOMAIN store'
      ]_vars

\* an incomplete callback brought a token, and a later well-formed callback
\* with the same token was given the token's entry
C36_Witness ==
    \E q, r \in DOMAIN cb :
        /\ q < r
        /\ cb[q].pc = "done"
        /\ Incomplete(cb[q])
        /\ cb[q].state \in DOMAIN issued
        /\ cb[r].state = cb[q].state
        /\ cb[r].exchanged
        /\ cb[r].entry # NoEntry

\* C37: every connector the callback creates holds a non-empty access token
\* in its credentials: a token response without an access token never yields a
\* connected connector.
C37_ConnectedHoldsAccessToken ==
    \A id \in DOMAIN db :
        db[id] # NoRow /\ origin[id] # 0 /\ db[id].connection_status = "connected"
        => DictGet(db[id].credentials, "access_token", "") # ""

-----------------------------------------------------------------------------
(* What a sweep cycle writes *)

\* a step of the health_check_loop task
SweeperStep == sw' # sw

\* the columns a sweep cycle never writes
SweepKeptColumns ==
    {"is_active", "customer_id", "app_name", "auth_method", "display_name",
     "external_account_id", "external_account_name", "token_expires_at", "last_synced_at"}

\* the refresh of connector id succeeded in the cycle the task is in
RefreshSucceeded(id) ==
    \E k \in DOMAIN sw.objs :
        /\ sw.objs[k].id = id
        /\ sw.objs[k].refresh # NotCalled
        /\ sw.objs[k].refresh # Failed

-----------------------------------------------------------------------------
(* The job of a sync from its creation to the end of the sync: checked under
   SpecSync *)

\* C39: every job a sync creates starts in status processing, stays in it
\* while the sync is under way, and is completed or failed when the sync
\* returns or raises; a completed job's chunks_created is the number of
\* chunks handed to the ingestion service, and a failed job carries the cause
\* of the failure as its error_message.
C39_JobEndsWithItsSync ==
    [][/\ \A j \in DOMAIN jobs' \ DOMAIN jobs :
             /\ jobs'[j].status = "processing"
             /\ \E r \in DOMAIN sy : sy[r].pc = "idle" /\ sy'[r].pc # "done" /\ sy'[r].job = j
       /\ \A r \in DOMAIN sy :
             sy'[r].job # 0 =>
                LET job == jobs'[sy'[r].job]
                IN  /\ sy'[r].pc # "done" => job.status = "processing"
                    /\ SyncEnds(r) =>
                          /\ job.status \in {"completed", "failed"}
                          /\ job.status = "completed" =>
                                /\ sy'[r].status_code = 200
                                /\ job.chunks_created = sy'[r].all_chunks
                                /\ job.chunks_created = Produced(sy'[r].results)
                          /\ job.status = "failed" =>
                                /\ sy'[r].status_code = 500
                                /\ job.error_message = Cause(Failed)
                                /\ job.error_message = sy'[r].message
      ]_vars

\* a sync handed four chunks to the ingestion service and returned: its job,
\* created when the sync began, is completed with chunks_created 4
C39_Witness ==
    \E r \in DOMAIN sy :
        /\ sy[r].pc = "done"
        /\ sy[r].job \in DOMAIN jobs
        /\ jobs[sy[r].job].status = "completed"
        /\ jobs[sy[r].job].started_at = HEALTH_CHECK_INTERVAL
        /\ sy[r].all_chunks = 4
        /\ jobs[sy[r].job].chunks_created = 4

=============================================================================
